---- MODULE Spec2Model ----
(***************************************************************************)
(* Model of the matching/scoring engine of the link-conversion bot         *)
(* (src/src/utils/scoring.js): field normalization, the weighted           *)
(* similarity score computed in IEEE-754 double arithmetic, and the        *)
(* best-match selector.                                                    *)
(*                                                                         *)
(* A JavaScript string is a sequence of characters, each character a       *)
(* one-token TLA+ string.  A JavaScript value that may be a string, null   *)
(* or undefined is a record [t |-> "string" | "null" | "undefined", s].    *)
(***************************************************************************)
EXTENDS Integers, Sequences, FiniteSets, TLC

(***************************************************************************)
(* Characters and their classes                                            *)
(***************************************************************************)
LowerChars == {"a", "b", "c", "d", "x", "y"}
UpperChars == {"A", "B"}
DigitChars == {"7"}
\* U+00C9 / U+00E9: LATIN CAPITAL / SMALL LETTER E WITH ACUTE, letters outside ASCII
NonAsciiUpper == {"U+00C9"}
NonAsciiLower == {"U+00E9"}
SpaceChars == {" "}
Underscore == "_"
\* characters that are neither letter, digit, underscore nor whitespace
SymbolChars == {"'"}

\* String.prototype.toLowerCase on one character
toLowerCase(c) ==
    CASE c = "A" -> "a"
      [] c = "B" -> "b"
      [] c = "U+00C9" -> "U+00E9"
      [] OTHER -> c

\* the regular expression class \w : [A-Za-z0-9_]
IsWordChar(c) == c \in LowerChars \cup UpperChars \cup DigitChars \cup {Underscore}

\* the regular expression class \s
IsSpaceChar(c) == c \in SpaceChars

Str(s) == [t |-> "string", s |-> s]
Null == [t |-> "null", s |-> <<>>]
Undefined == [t |-> "undefined", s |-> <<>>]

RECURSIVE MapChars(_)
MapChars(s) == IF s = <<>> THEN <<>> ELSE <<toLowerCase(Head(s))>> \o MapChars(Tail(s))

\* .replace(/[^\w\s]/g, '') : drop every character outside \w and \s
RECURSIVE ReplaceNonWordNonSpace(_)
ReplaceNonWordNonSpace(s) ==
    IF s = <<>> THEN <<>>
    ELSE IF IsWordChar(Head(s)) \/ IsSpaceChar(Head(s))
         THEN <<Head(s)>> \o ReplaceNonWordNonSpace(Tail(s))
         ELSE ReplaceNonWordNonSpace(Tail(s))

RECURSIVE TrimStart(_)
TrimStart(s) == IF s # <<>> /\ IsSpaceChar(Head(s)) THEN TrimStart(Tail(s)) ELSE s

RECURSIVE TrimEnd(_)
TrimEnd(s) ==
    IF s # <<>> /\ IsSpaceChar(s[Len(s)]) THEN TrimEnd(SubSeq(s, 1, Len(s) - 1)) ELSE s

\* String.prototype.trim
trim(s) == TrimEnd(TrimStart(s))

\* `${str}` in the place of str?. : null and undefined become their names
normalizeStringified(str) ==
    IF str.t = "null" THEN <<"n", "u", "l", "l">>
    ELSE IF str.t = "undefined" THEN <<"u", "n", "d", "e", "f", "i", "n", "e", "d">>
    ELSE trim(ReplaceNonWordNonSpace(MapChars(str.s)))

\* normalize without .toLowerCase()
normalizeCaseSensitive(str) ==
    IF str.t # "string" THEN <<>>
    ELSE trim(ReplaceNonWordNonSpace(str.s))

\* const normalize = (str) => str?.toLowerCase().replace(/[^\w\s]/g, '').trim() || ''
normalize(str) ==
    IF str.t # "string" THEN <<>>
    ELSE trim(ReplaceNonWordNonSpace(MapChars(str.s)))

(***************************************************************************)
(* Natural numbers of any size, little-endian sequences of limbs in base   *)
(* 2^15 with no leading zero limb, carrying the 53-bit significands of     *)
(* doubles and their exact products.                                       *)
(***************************************************************************)
LimbBits == 15
LimbBase == 32768

RECURSIVE Pow2(_)
Pow2(n) == IF n = 0 THEN 1 ELSE 2 * Pow2(n - 1)

RECURSIVE BigNorm(_)
BigNorm(a) ==
    IF a # <<>> /\ a[Len(a)] = 0 THEN BigNorm(SubSeq(a, 1, Len(a) - 1)) ELSE a

BigFromInt(k) ==
    BigNorm(<<k % LimbBase, (k \div LimbBase) % LimbBase, k \div (LimbBase * LimbBase)>>)

RECURSIVE BigAddCarry(_, _, _)
BigAddCarry(a, b, carry) ==
    IF a = <<>> /\ b = <<>> THEN (IF carry = 0 THEN <<>> ELSE <<carry>>)
    ELSE LET x == IF a = <<>> THEN 0 ELSE Head(a)
             y == IF b = <<>> THEN 0 ELSE Head(b)
             sum == x + y + carry
         IN <<sum % LimbBase>> \o
            BigAddCarry(IF a = <<>> THEN <<>> ELSE Tail(a),
                        IF b = <<>> THEN <<>> ELSE Tail(b),
                        sum \div LimbBase)

BigAdd(a, b) == BigAddCarry(a, b, 0)

RECURSIVE BigMulSmallCarry(_, _, _)
BigMulSmallCarry(a, k, carry) ==
    IF a = <<>> THEN (IF carry = 0 THEN <<>> ELSE <<carry>>)
    ELSE LET p == Head(a) * k + carry
         IN <<p % LimbBase>> \o BigMulSmallCarry(Tail(a), k, p \div LimbBase)

\* a * k for 0 <= k < 2^15
BigMulSmall(a, k) == BigNorm(BigMulSmallCarry(a, k, 0))

RECURSIVE BigMul(_, _)
BigMul(a, b) ==
    IF a = <<>> \/ b = <<>> THEN <<>>
    ELSE LET rest == BigMul(a, Tail(b))
         IN BigAdd(BigMulSmall(a, Head(b)), IF rest = <<>> THEN <<>> ELSE <<0>> \o rest)

\* quotient and remainder of a by d, 0 < d <= 2^15, long division from the top limb
RECURSIVE BigDivSmallFrom(_, _, _, _)
BigDivSmallFrom(a, d, i, rem) ==
    IF i = 0 THEN [q |-> <<>>, r |-> rem]
    ELSE LET cur == rem * LimbBase + a[i]
             lower == BigDivSmallFrom(a, d, i - 1, cur % d)
         IN [q |-> lower.q \o <<cur \div d>>, r |-> lower.r]

BigDivSmall(a, d) ==
    LET res == BigDivSmallFrom(a, d, Len(a), 0) IN [q |-> BigNorm(res.q), r |-> res.r]

RECURSIVE BitLenSmall(_)
BitLenSmall(x) == IF x = 0 THEN 0 ELSE 1 + BitLenSmall(x \div 2)

BigBitLen(a) == IF a = <<>> THEN 0 ELSE LimbBits * (Len(a) - 1) + BitLenSmall(a[Len(a)])

Zeros(n) == [i \in 1..n |-> 0]

\* a * 2^s
BigShiftLeft(a, s) ==
    IF a = <<>> THEN <<>>
    ELSE BigMulSmall(Zeros(s \div LimbBits) \o a, Pow2(s % LimbBits))

\* floor(a / 2^s), and whether any of the bits shifted out was set
BigShiftRight(a, s) ==
    LET drop == s \div LimbBits
        kept == IF drop >= Len(a) THEN <<>> ELSE SubSeq(a, drop + 1, Len(a))
        lost == \E i \in 1..Len(a) : i <= drop /\ a[i] # 0
        dv == BigDivSmall(kept, Pow2(s % LimbBits))
    IN [q |-> dv.q, sticky |-> lost \/ dv.r # 0]

BigIsOdd(a) == a # <<>> /\ a[1] % 2 = 1

\* the value of a as an integer, for a < 2^30
BigToInt(a) ==
    IF a = <<>> THEN 0 ELSE IF Len(a) = 1 THEN a[1] ELSE a[1] + LimbBase * a[2]

(***************************************************************************)
(* IEEE-754 binary64 numbers >= 0: [m |-> significand, e |-> exponent],    *)
(* value m * 2^e, with m = 0 (and e = 0) or 2^52 <= m < 2^53.              *)
(***************************************************************************)
SignificandBits == 53

\* the double nearest to n * 2^e (+ a nonzero amount below the last bit of n
\* when sticky), round half to even
RoundToDouble(n, e, sticky) ==
    LET len == BigBitLen(n) IN
    IF len = 0 THEN [m |-> <<>>, e |-> 0]
    ELSE IF len <= SignificandBits
    THEN [m |-> BigShiftLeft(n, SignificandBits - len), e |-> e - (SignificandBits - len)]
    ELSE LET s == len - SignificandBits
             g == BigShiftRight(n, s - 1)
             guard == BigIsOdd(g.q)
             trunc == BigShiftRight(g.q, 1).q
             up == guard /\ (g.sticky \/ sticky \/ BigIsOdd(trunc))
             m == IF up THEN BigAdd(trunc, <<1>>) ELSE trunc
         IN IF BigBitLen(m) > SignificandBits
            THEN [m |-> BigShiftRight(m, 1).q, e |-> e + s + 1]
            ELSE [m |-> m, e |-> e + s]

DoubleFromInt(k) == RoundToDouble(BigFromInt(k), 0, FALSE)

\* x * y
DoubleMul(x, y) == RoundToDouble(BigMul(x.m, y.m), x.e + y.e, FALSE)

\* x + y
DoubleAdd(x, y) ==
    IF x.m = <<>> THEN y
    ELSE IF y.m = <<>> THEN x
    ELSE LET e == IF x.e < y.e THEN x.e ELSE y.e
         IN RoundToDouble(BigAdd(BigShiftLeft(x.m, x.e - e), BigShiftLeft(y.m, y.e - e)),
                          e, FALSE)

DivGuardBits == 75

\* p / q for integers 0 <= p < 2^15, 0 < q < 2^15
DoubleDivInt(p, q) ==
    LET dv == BigDivSmall(BigShiftLeft(BigFromInt(p), DivGuardBits), q)
    IN RoundToDouble(dv.q, 0 - DivGuardBits, dv.r # 0)

\* Math.round(x) for x >= 0: floor(x + 0.5), computed without rounding error
MathRound(x) ==
    IF x.m = <<>> THEN 0
    ELSE IF x.e >= 0 THEN BigToInt(BigShiftLeft(x.m, x.e))
    ELSE LET twice == BigShiftRight(x.m, (0 - x.e) - 1).q
         IN BigToInt(BigShiftRight(twice, 1).q) + (IF BigIsOdd(twice) THEN 1 ELSE 0)

(***************************************************************************)
(* stringSimilarity.compareTwoStrings (npm package string-similarity): the *)
(* Dice coefficient over character bigrams, as a double.                   *)
(***************************************************************************)
\* .replace(/\s+/g, '')
RECURSIVE RemoveWhitespace(_)
RemoveWhitespace(s) ==
    IF s = <<>> THEN <<>>
    ELSE IF IsSpaceChar(Head(s)) THEN RemoveWhitespace(Tail(s))
         ELSE <<Head(s)>> \o RemoveWhitespace(Tail(s))

BigramAt(s, i) == <<s[i], s[i + 1]>>

\* the Map from each bigram of s to the number of times it occurs in s
FirstBigrams(s) ==
    [bg \in {BigramAt(s, i) : i \in 1..(Len(s) - 1)} |->
        Cardinality({i \in 1..(Len(s) - 1) : BigramAt(s, i) = bg})]

\* the second loop: each bigram of s, in order, consumes one occurrence left in the map
RECURSIVE IntersectionSize(_, _, _)
IntersectionSize(bigrams, s, i) ==
    IF i > Len(s) - 1 THEN 0
    ELSE LET bg == BigramAt(s, i)
         IN IF bg \in DOMAIN bigrams /\ bigrams[bg] > 0
            THEN 1 + IntersectionSize([bigrams EXCEPT ![bg] = @ - 1], s, i + 1)
            ELSE IntersectionSize(bigrams, s, i + 1)

compareTwoStrings(first, second) ==
    LET f == RemoveWhitespace(first)
        g == RemoveWhitespace(second)
    IN IF f = g THEN DoubleFromInt(1)
       ELSE IF Len(f) < 2 \/ Len(g) < 2 THEN DoubleFromInt(0)
       ELSE DoubleDivInt(2 * IntersectionSize(FirstBigrams(f), g, 1), Len(f) + Len(g) - 2)

(***************************************************************************)
(* Song records.  A song is [t |-> "object", id, name, artist, album]; id  *)
(* stands for the fields scoring does not read.  NullSong is null.         *)
(***************************************************************************)
Song(id, name, artist, album) ==
    [t |-> "object", id |-> id, name |-> name, artist |-> artist, album |-> album]

\* a record as the catalogue services return it: the scored fields, the id and the
\* platform
Track(id, platform, name, artist, album) ==
    [t |-> "object", id |-> id, platform |-> platform, name |-> name, artist |-> artist,
     album |-> album]

NullSong == [t |-> "null", id |-> 0, name |-> Undefined, artist |-> Undefined,
             album |-> Undefined]

\* album: 0.4 in the place of album: 0.2
weightsAlbumAsTitle == [title |-> DoubleDivInt(2, 5), artist |-> DoubleDivInt(2, 5),
                        album |-> DoubleDivInt(2, 5)]

\* const weights = { title: 0.4, artist: 0.4, album: 0.2 }
weights == [title |-> DoubleDivInt(2, 5), artist |-> DoubleDivInt(2, 5),
            album |-> DoubleDivInt(1, 5)]

\* the weighted sum without the factor 100
totalScoreUnscaled(titleScore, artistScore, albumScore) ==
    DoubleAdd(DoubleAdd(DoubleMul(titleScore, DoubleDivInt(2, 5)),
                        DoubleMul(artistScore, DoubleDivInt(2, 5))),
              DoubleMul(albumScore, DoubleDivInt(1, 5)))

\* the double (titleScore * 0.4 + artistScore * 0.4 + albumScore * 0.2) * 100
totalScore(titleScore, artistScore, albumScore) ==
    DoubleMul(DoubleAdd(DoubleAdd(DoubleMul(titleScore, weights.title),
                                  DoubleMul(artistScore, weights.artist)),
                        DoubleMul(albumScore, weights.album)),
              DoubleFromInt(100))

\* lines 17-46: the score of two songs that are both given
weightedScore(originalSong, candidateSong) ==
    LET titleScore == compareTwoStrings(normalize(originalSong.name),
                                        normalize(candidateSong.name))
        artistScore == compareTwoStrings(normalize(originalSong.artist),
                                         normalize(candidateSong.artist))
        albumScore == compareTwoStrings(normalize(originalSong.album),
                                        normalize(candidateSong.album))
    IN MathRound(totalScore(titleScore, artistScore, albumScore))

\* && in the place of || in the guard of line 15
calculateSongScoreWhenBothNull(originalSong, candidateSong) ==
    IF originalSong.t = "null" /\ candidateSong.t = "null" THEN 0
    ELSE weightedScore(originalSong, candidateSong)

calculateSongScore(originalSong, candidateSong) ==
    IF originalSong.t = "null" \/ candidateSong.t = "null" THEN 0
    ELSE weightedScore(originalSong, candidateSong)

(***************************************************************************)
(* getConfidenceLevel; strings are sequences of characters                 *)
(***************************************************************************)
DecimalDigits == <<"0", "1", "2", "3", "4", "5", "6", "7", "8", "9">>

\* the decimal digits of a natural number, most significant first
RECURSIVE DigitsOf(_)
DigitsOf(n) ==
    IF n < 10 THEN <<DecimalDigits[n + 1]>>
    ELSE Append(DigitsOf(n \div 10), DecimalDigits[(n % 10) + 1])

\* `${score}` of an integer
NumberToString(n) == IF n < 0 THEN <<"-">> \o DigitsOf(0 - n) ELSE DigitsOf(n)

ExactMatch == <<"E", "x", "a", "c", "t", " ", "m", "a", "t", "c", "h">>
PercentMatch == <<"%", " ", "m", "a", "t", "c", "h">>
LowConfidence == <<" ", "(", "l", "o", "w", " ", "c", "o", "n", "f", "i", "d", "e", "n", "c", "e", ")">>

\* score >= 90 in the place of score >= 98
getConfidenceLevelFrom90(s) ==
    IF s >= 90 THEN ExactMatch
    ELSE IF s >= 60 THEN NumberToString(s) \o PercentMatch
    ELSE NumberToString(s) \o PercentMatch \o LowConfidence

\* function getConfidenceLevel(score)
getConfidenceLevel(s) ==
    IF s >= 98 THEN ExactMatch
    ELSE IF s >= 90 THEN NumberToString(s) \o PercentMatch
    ELSE IF s >= 80 THEN NumberToString(s) \o PercentMatch
    ELSE IF s >= 60 THEN NumberToString(s) \o PercentMatch
    ELSE NumberToString(s) \o PercentMatch \o LowConfidence

(***************************************************************************)
(* findBestMatch, one step per statement of its loop                       *)
(***************************************************************************)
\* null, as the value of bestMatch and of the function
NullMatch == [t |-> "null"]

\* { name, artist, album, matchScore } in the place of { ...candidate, matchScore }
WithMatchScoreOfScoredFields(candidate, s) ==
    [t |-> "object", name |-> candidate.name, artist |-> candidate.artist,
     album |-> candidate.album, matchScore |-> s]

\* { ...candidate, matchScore: score }
WithMatchScore(candidate, s) ==
    [f \in DOMAIN candidate \cup {"matchScore"} |->
        IF f = "matchScore" THEN s ELSE candidate[f]]

\* candidate.matchScore = score on the element of the array, in the place of a copy
ItemsWithMatchScoreSet(items, i, s) == [items EXCEPT ![i] = WithMatchScore(@, s)]

\* the elements of candidates after line 78: the spread copies, the array keeps
\* its elements
ItemsAfterSpread(items, i, s) == items

\* the for..of loop stopping before the last element
IteratorDoneBeforeLast(i, items) == i >= Len(items)

\* for (const candidate of candidates): the iterator is exhausted
IteratorDone(i, items) == i > Len(items)

\* an array, or null in the place of one
Array(items) == [t |-> "array", items |-> items]
NullArray == [t |-> "null", items |-> <<>>]

\* if (!candidates || candidates.length === 0) return null
NoCandidates(cands) == cands.t = "null" \/ Len(cands.items) = 0

\* score > 0 in the place of score > bestScore
IsBetterThanZero(s, best) == s > 0

\* score >= bestScore in the place of score > bestScore
IsBetterOrEqual(s, best) == s >= best

\* if (score > bestScore)
IsBetter(s, best) == s > best

\* bestScore > 60 in the place of bestScore >= 60
SelectedAbove(best, match) == IF best > 60 THEN match ELSE NullMatch

\* return bestScore >= 60 ? bestMatch : null
Selected(best, match) == IF best >= 60 THEN match ELSE NullMatch

(***************************************************************************)
(* convertMusicLink, from the search results on                            *)
(***************************************************************************)
\* null, as the value convertMusicLink returns
NullConversion == [t |-> "null"]

\* { original, converted, confidence: getConfidenceLevel(convertedSong.matchScore), ... }
Conversion(original, converted, sourcePlatform) ==
    [t |-> "object", original |-> original, converted |-> converted,
     confidence |-> getConfidenceLevel(converted.matchScore),
     sourcePlatform |-> sourcePlatform, targetPlatform |-> converted.platform]

(***************************************************************************)
(* SMBot: the update handlers, one step from each await to the next        *)
(***************************************************************************)
\* ctx.chat?.id when the update has no chat
NoChat == 0

\* config.telegram.botPassword: process.env.SMBOT_BOT_PASSWORD || 'unsecure'
BotPassword == "unsecure"

\* ctx.message?.text: a string as the sequence of its words, or undefined
Text(words) == [t |-> "string", words |-> words]
NoText == [t |-> "undefined", words |-> <<>>]

\* a word of a message: a link https://<host>/.../<kind>/.../<id>, or another word
Link(host, kind, id) == [host |-> host, kind |-> kind, id |-> id]
Word(w) == [host |-> "", kind |-> "", id |-> w]

\* allPatterns: the Spotify patterns, then the Apple Music patterns
allPatterns ==
    <<[host |-> "open.spotify.com", kind |-> "track"],
      [host |-> "open.spotify.com", kind |-> "album"],
      [host |-> "spotify.com", kind |-> "track"],
      [host |-> "spotify.com", kind |-> "album"],
      [host |-> "music.apple.com", kind |-> "song"],
      [host |-> "music.apple.com", kind |-> "album"]>>

\* text.match(pattern): the matches in the order of the text
RECURSIVE match(_, _)
match(words, pattern) ==
    IF words = <<>> THEN <<>>
    ELSE IF Head(words).host = pattern.host /\ Head(words).kind = pattern.kind
         THEN <<Head(words)>> \o match(Tail(words), pattern)
         ELSE match(Tail(words), pattern)

\* for (const pattern of allPatterns) links.push(...matches), up to pattern n
RECURSIVE MatchesUpTo(_, _)
MatchesUpTo(words, n) ==
    IF n = 0 THEN <<>> ELSE MatchesUpTo(words, n - 1) \o match(words, allPatterns[n])

\* [...new Set(links)]: the first occurrence of every element
RECURSIVE WithoutDuplicates(_)
WithoutDuplicates(links) ==
    IF links = <<>> THEN <<>>
    ELSE LET front == WithoutDuplicates(SubSeq(links, 1, Len(links) - 1))
             last == links[Len(links)]
         IN IF \E i \in DOMAIN front : front[i] = last THEN front ELSE Append(front, last)

\* extractMusicLinks(text)
extractMusicLinks(words) == WithoutDuplicates(MatchesUpTo(words, Len(allPatterns)))

\* this.chats.has(chatId)
Has(set, chatId) == \E i \in DOMAIN set : set[i] = chatId

\* this.chats.add(chatId)
Add(set, chatId) == IF Has(set, chatId) THEN set ELSE Append(set, chatId)

\* this.chats.delete(chatId)
RECURSIVE Delete(_, _)
Delete(set, chatId) ==
    IF set = <<>> THEN <<>>
    ELSE IF Head(set) = chatId THEN Tail(set)
         ELSE <<Head(set)>> \o Delete(Tail(set), chatId)

\* new Set(chatIds)
RECURSIVE SetOf(_)
SetOf(chatIds) ==
    IF chatIds = <<>> THEN <<>>
    ELSE Add(SetOf(SubSeq(chatIds, 1, Len(chatIds) - 1)), chatIds[Len(chatIds)])

\* the texts handed to ctx.reply
ReplyNoChat == "Error: Unable to identify chat."
ReplyIncorrectPassword == "Incorrect password. I don't know you."
ReplyWelcome == "Welcome to Spotify-Apple Music Links Bot!"
ReplyStopped == "I will stop converting music links in this chat."
ReplyConverted == "formatConversionMessage(conversionResult)"
ReplyNotConverted == "Sorry, I couldn't convert this music link."
ReplyError == "Sorry, I encountered an error while converting this music link."

\* ctx.reply(text), for the update at position u of handlers
Reply(u, chatId, text) == [update |-> u, chatId |-> chatId, text |-> text]

\* a handler: the update it was started for, the await it is at (pc), the value
\* addChatId / removeChatId passed to setSetupValue or, in a sequence of one, what
\* convertMusicLink returned ("object" or "null"), the reply it goes on to send
Handler(kind, chatId, payload, text, at, value, then) ==
    [kind |-> kind, chatId |-> chatId, payload |-> payload, text |-> text, pc |-> at,
     value |-> value, then |-> then]

\* JSON.stringify of an array of integers with no comma between the elements
RECURSIVE JoinNumbersUnseparated(_)
JoinNumbersUnseparated(ids) ==
    IF ids = <<>> THEN <<>>
    ELSE JoinNumbersUnseparated(SubSeq(ids, 1, Len(ids) - 1)) \o NumberToString(ids[Len(ids)])

\* JSON.stringify of an array of integers
RECURSIVE JoinNumbers(_)
JoinNumbers(ids) ==
    IF ids = <<>> THEN <<>>
    ELSE IF Len(ids) = 1 THEN NumberToString(ids[1])
    ELSE JoinNumbers(SubSeq(ids, 1, Len(ids) - 1)) \o <<",">> \o NumberToString(ids[Len(ids)])

JSONStringify(ids) == <<"[">> \o JoinNumbers(ids) \o <<"]">>

\* JSON.parse of the text of an array of integers: the elements read from chars,
\* sign and n being the sign and the digits read of the element under way
RECURSIVE ParseElements(_, _, _, _)
ParseElements(chars, sign, n, started) ==
    IF chars = <<>> THEN IF started THEN <<sign * n>> ELSE <<>>
    ELSE IF Head(chars) = "," THEN <<sign * n>> \o ParseElements(Tail(chars), 1, 0, FALSE)
    ELSE IF Head(chars) = "-" THEN ParseElements(Tail(chars), 0 - 1, 0, started)
    ELSE ParseElements(Tail(chars), sign,
                       10 * n + (CHOOSE d \in 0..9 : DecimalDigits[d + 1] = Head(chars)), TRUE)

JSONParse(text) == ParseElements(SubSeq(text, 2, Len(text) - 1), 1, 0, FALSE)

\* the row of the table setup: absent, or holding the text saved
NoRow == [exists |-> FALSE, value |-> <<>>]
Row(value) == [exists |-> TRUE, value |-> value]

\* db.getSetupValue(SETUP_CHATS_KEY, [], true)
getSetupValue(row) == IF row.exists THEN JSONParse(row.value) ELSE <<>>

\* formatConversionMessage without the check of conversionResult
formatConversionMessageOfResult(conversion) == ReplyConverted

\* formatConversionMessage(conversionResult)
formatConversionMessage(conversion) ==
    IF conversion = "null" THEN ReplyNotConverted ELSE ReplyConverted

\* password === this.config.telegram.botPassword in the place of !==
PasswordRejectedWhenRight(password) == password = BotPassword

\* if (password !== this.config.telegram.botPassword)
PasswordRejected(password) == password # BotPassword

\* addChatId without the check of this.chats.has(chatId)
AlreadyAddedNever(set, chatId) == FALSE

\* addChatId: if (this.chats.has(chatId)) return
AlreadyAdded(set, chatId) == Has(set, chatId)

\* removeChatId: if (!this.chats.has(chatId)) return
NotFound(set, chatId) == ~Has(set, chatId)

\* handleTextMessage without the check of this.chats.has(chatId)
NotSubscribedNever(set, chatId) == FALSE

\* handleTextMessage: if (!this.chats.has(chatId)) return
NotSubscribed(set, chatId) == ~Has(set, chatId)

(***************************************************************************)
(* URLs, and the regular expressions of the services                       *)
(***************************************************************************)
\* A URL is the sequence of its segments (the text split at "/"), a segment the
\* sequence of its pieces: a decimal digit, a word (a run of letters), or another
\* character. https://open.spotify.com/track/4iV5 is
\* << <<"https", ":">>, <<>>, <<"open", ".", "spotify", ".", "com">>, <<"track">>,
\*    <<"4", "iV", "5">> >>.
IsDigitPiece(p) == \E i \in 1..10 : DecimalDigits[i] = p

\* the other characters; every other piece is a word
OtherChars == {":", ".", "-", "?", "="}

\* \d+ at the start of a segment: the longest run of digits
RECURSIVE LeadingDigits(_)
LeadingDigits(segment) ==
    IF segment = <<>> \/ ~IsDigitPiece(Head(segment)) THEN <<>>
    ELSE <<Head(segment)>> \o LeadingDigits(Tail(segment))

\* [a-zA-Z0-9]+ at the start of a segment
RECURSIVE LeadingLettersDigits(_)
LeadingLettersDigits(segment) ==
    IF segment = <<>> \/ Head(segment) \in OtherChars THEN <<>>
    ELSE <<Head(segment)>> \o LeadingLettersDigits(Tail(segment))

\* the segment ends with the host name, a "/" following
EndsWithHost(segment, host) ==
    /\ Len(segment) >= Len(host)
    /\ SubSeq(segment, Len(segment) - Len(host) + 1, Len(segment)) = host

\* spotify\.com and music\.apple\.com
SpotifyHost == <<"spotify", ".", "com">>
AppleMusicHost == <<"music", ".", "apple", ".", "com">>

Least(S) == CHOOSE i \in S : \A j \in S : i <= j

\* /spotify\.com\/<kind>\/([a-zA-Z0-9]+)/.exec(url): match[1] of the leftmost match
SpotifyIdFromUrl(u, kind) ==
    LET at == {i \in 1..(Len(u) - 2) :
                  /\ EndsWithHost(u[i], SpotifyHost)
                  /\ u[i + 1] = <<kind>>
                  /\ LeadingLettersDigits(u[i + 2]) # <<>>}
    IN IF at = {} THEN Null ELSE Str(LeadingLettersDigits(u[Least(at) + 2]))

\* music\.apple\.com\/[^/]+\/<kind>\/[^/]+\/ matches the segments from i on
AppleMusicPathAt(u, i, kind) ==
    /\ i + 4 <= Len(u)
    /\ EndsWithHost(u[i], AppleMusicHost)
    /\ u[i + 1] # <<>>
    /\ u[i + 2] = <<kind>>
    /\ u[i + 3] # <<>>

\* /music\.apple\.com\/[^/]+\/<kind>\/[^/]+\/(\d+)/.exec(url)
AppleMusicIdFromUrl(u, kind) ==
    LET at == {i \in 1..Len(u) :
                  AppleMusicPathAt(u, i, kind) /\ LeadingDigits(u[i + 4]) # <<>>}
    IN IF at = {} THEN Null ELSE Str(LeadingDigits(u[Least(at) + 4]))

\* the digits after \d+\?i= at the start of a segment
TrackParameter(segment) ==
    LET n == Len(LeadingDigits(segment))
    IN IF n > 0 /\ Len(segment) >= n + 3 /\ SubSeq(segment, n + 1, n + 3) = <<"?", "i", "=">>
       THEN LeadingDigits(SubSeq(segment, n + 4, Len(segment)))
       ELSE <<>>

\* /music\.apple\.com\/[^/]+\/album\/[^/]+\/\d+\?i=(\d+)/.exec(url)
AppleMusicTrackParameterFromUrl(u) ==
    LET at == {i \in 1..Len(u) :
                  AppleMusicPathAt(u, i, "album") /\ TrackParameter(u[i + 4]) # <<>>}
    IN IF at = {} THEN Null ELSE Str(TrackParameter(u[Least(at) + 4]))

\* SpotifyService
spotifyExtractTrackIdFromUrl(u) == SpotifyIdFromUrl(u, "track")
spotifyExtractAlbumIdFromUrl(u) == SpotifyIdFromUrl(u, "album")
spotifyIsValidUrl(u) == \E i \in 1..(Len(u) - 1) : EndsWithHost(u[i], SpotifyHost)

\* AppleMusicService
appleMusicExtractTrackIdFromUrl(u) ==
    IF AppleMusicIdFromUrl(u, "song") # Null THEN AppleMusicIdFromUrl(u, "song")
    ELSE AppleMusicTrackParameterFromUrl(u)
extractAlbumIdFromUrl(u) == AppleMusicIdFromUrl(u, "album")
appleMusicIsValidUrl(u) == \E i \in 1..(Len(u) - 1) : EndsWithHost(u[i], AppleMusicHost)

NoLinkInfo == [t |-> "null", platform |-> "", type |-> "", id |-> Null]
LinkInfo(platform, type, id) ==
    [t |-> "object", platform |-> platform, type |-> type, id |-> id]

\* detectMusicLink(url), url a string
detectMusicLink(u) ==
    IF spotifyIsValidUrl(u) /\ spotifyExtractTrackIdFromUrl(u) # Null
    THEN LinkInfo("spotify", "track", spotifyExtractTrackIdFromUrl(u))
    ELSE IF spotifyIsValidUrl(u) /\ spotifyExtractAlbumIdFromUrl(u) # Null
    THEN LinkInfo("spotify", "album", spotifyExtractAlbumIdFromUrl(u))
    ELSE IF appleMusicIsValidUrl(u) /\ appleMusicExtractTrackIdFromUrl(u) # Null
    THEN LinkInfo("apple_music", "track", appleMusicExtractTrackIdFromUrl(u))
    ELSE IF appleMusicIsValidUrl(u) /\ extractAlbumIdFromUrl(u) # Null
    THEN LinkInfo("apple_music", "album", extractAlbumIdFromUrl(u))
    ELSE NoLinkInfo

(***************************************************************************)
(* The catalogue services: tokens, requests and their answers               *)
(***************************************************************************)
Platforms == {"spotify", "apple_music"}

\* this.accessToken / this.token = null; a token is its number in the order signed
NoToken == 0
\* this.tokenExpiry = null
NoExpiry == 0
NoTokens == [p \in Platforms |-> [token |-> NoToken, tokenExpiry |-> NoExpiry]]

\* if (this.accessToken) return, the expiry not looked at
TokenValidWhateverExpiry(stored, t) == stored.token # NoToken

\* if (this.accessToken && this.tokenExpiry && Date.now() < this.tokenExpiry) return
TokenValid(stored, t) ==
    stored.token # NoToken /\ stored.tokenExpiry # NoExpiry /\ t < stored.tokenExpiry

\* SpotifyService.authenticate: Date.now() + (response.data.expires_in - 60) * 1000
spotifyTokenExpiry(t, expires_in) == t + (expires_in - 60) * 1000

\* AppleMusicService.generateToken: now = Math.floor(Date.now() / 1000),
\* exp = now + 3600, this.tokenExpiry = (exp - 60) * 1000
appleMusicTokenExpiry(t) == (((t \div 1000) + 3600) - 60) * 1000

\* the service and the method under way
NoMethod == [service |-> "", name |-> ""]
Method(service, name) == [service |-> service, name |-> name]

\* a request sent: a token asked for or signed ("token"), or axios.get with the
\* Authorization header Bearer <token>; its answer "pending", "ok" or "failed"
Request(service, name, token) ==
    [service |-> service, name |-> name, token |-> token, answer |-> "pending"]

\* the answer to axios.get: the items found, or a failure
Response(ok, items) == [ok |-> ok, items |-> items]

Answered(log, response) ==
    [log EXCEPT ![Len(log)].answer = IF response.ok THEN "ok" ELSE "failed"]

\* createSongFromSpotifyTrack / ...Album, createSongFromAppleMusicTrack / ...Album
createSong(service, item) == Track(item.id, service, item.name, item.artist, item.album)

\* getTrackById / getAlbumById without the try .. catch
getByIdUncaught(service, response) ==
    IF Len(response.items) > 0 THEN createSong(service, response.items[1])
    ELSE Track(0, service, Undefined, Undefined, Undefined)

\* getTrackById / getAlbumById: the song of the answer; null when the request
\* failed (catch) or found nothing
getById(service, response) ==
    IF response.ok /\ Len(response.items) > 0 THEN createSong(service, response.items[1])
    ELSE NullSong

\* searchTracks: the songs of the answer; [] when the request failed (catch)
searchTracks(service, response) ==
    IF response.ok
    THEN [i \in DOMAIN response.items |-> createSong(service, response.items[i])]
    ELSE <<>>

\* getOriginalSong: the service of the link's platform, and its method
sourceService(link) == IF link.platform = "spotify" THEN "spotify" ELSE "apple_music"
getOriginalSong(link) ==
    Method(sourceService(link), IF link.type = "track" THEN "getTrackById" ELSE "getAlbumById")

\* convertToOppositePlatform with the services the other way round
targetServiceOfSource(sourcePlatform) ==
    IF sourcePlatform = "spotify" THEN "spotify" ELSE "apple_music"

\* convertToOppositePlatform: const targetService
targetService(sourcePlatform) ==
    IF sourcePlatform = "spotify" THEN "apple_music" ELSE "spotify"

\* convertMusicLink without the check of originalSong
OriginalMissingNever(song) == FALSE

\* convertMusicLink: if (!originalSong)
OriginalMissing(song) == song.t = "null"

VARIABLES
    pc,             \* the statement the call under way has reached
    str,            \* normalize: the argument
    normalized,     \* normalize: the string returned
    originalSong,   \* calculateSongScore, findBestMatch: the first argument
    candidateSong,  \* calculateSongScore: the second argument
    score,          \* calculateSongScore: the number returned
    candidates,     \* findBestMatch: the second argument
    idx,            \* findBestMatch: the position of the for..of iterator
    bestMatch,      \* findBestMatch: let bestMatch
    bestScore,      \* findBestMatch: let bestScore
    scored,         \* findBestMatch: the positions calculateSongScore was called for
    result,         \* findBestMatch: the value returned
    confidence,     \* getConfidenceLevel: the string returned
    conversionResult, \* convertMusicLink: the value returned
    chats,          \* SMBot: this.chats, a Set, as the sequence of its elements in insertion order
    setupRow,       \* the row telegram_chat_ids of the table setup
    handlers,       \* the update handlers started, in the order of their updates
    replies,        \* the messages handed to ctx.reply, in order
    conversions,    \* the calls of convertMusicLink, in order
    url,            \* convertMusicLink, extractAlbumIdFromUrl: the argument
    linkInfo,       \* convertMusicLink: const linkInfo
    method,         \* the service and its method (getTrackById, ...) under way
    requests,       \* the requests sent for this call, each with its answer, in order
    tokens,         \* of each service: the token and the expiry stored
    now,            \* Date.now()
    calls,          \* the calls of convertMusicLink begun
    albumId         \* extractAlbumIdFromUrl: the value returned

normVars == <<str, normalized>>
scoreVars == <<candidateSong, score>>
matchVars == <<candidates, idx, bestMatch, bestScore, scored, result>>
labelVars == <<confidence>>
convVars == <<conversionResult>>
botVars == <<chats, setupRow, handlers, replies, conversions>>
vars == <<pc, str, normalized, originalSong, candidateSong, score, candidates, idx,
          bestMatch, bestScore, scored, result, confidence, conversionResult,
          chats, setupRow, handlers, replies, conversions,
          url, linkInfo, method, requests, tokens, now, calls, albumId>>
linkVars == <<url, linkInfo, method, requests, tokens, now, calls, albumId>>

(***************************************************************************)
(* Inputs                                                                  *)
(***************************************************************************)
RECURSIVE Repeat(_, _)
Repeat(c, k) == IF k = 0 THEN <<>> ELSE <<c>> \o Repeat(c, k - 1)

\* a field text followed by k more characters, as in "Song (Remastered)"
Padded(stem, k) == Str(stem \o Repeat("d", k))

RECURSIVE StringsUpTo(_, _)
StringsUpTo(alphabet, n) ==
    IF n = 0 THEN {<<>>}
    ELSE LET shorter == StringsUpTo(alphabet, n - 1)
         IN shorter \cup {<<c>> \o s : c \in alphabet, s \in {t \in shorter : Len(t) = n - 1}}

\* normalize: every string of at most MaxRawLen characters, one character per class
MaxRawLen == 3
RawAlphabet == {"a", "B", "7", "_", "'", " ", "U+00C9"}
RawValues == {Null, Undefined} \cup {Str(s) : s \in StringsUpTo(RawAlphabet, MaxRawLen)}

\* calculateSongScore: the original's fields are short, the candidate's fields
\* are the same texts followed by up to MaxArtistPad / MaxAlbumPad characters
MaxOriginalPad == 1
MaxArtistPad == 6
MaxAlbumPad == 10
ArtistStem == <<"a", "b">>
AlbumStem == <<"a", "b", "c", "d">>
NameValues == {Str(<<"A", "b">>), Str(<<"a", "'", "b">>), Str(<<"a", "_", "b">>), Null}

OriginalSongs ==
    {NullSong} \cup
    {Song(1, n, a, b) :
        n \in NameValues,
        a \in {Undefined} \cup {Padded(ArtistStem, k) : k \in 0..MaxOriginalPad},
        b \in {Null} \cup {Padded(AlbumStem, k) : k \in 0..MaxOriginalPad}}

CandidateSongs ==
    {NullSong} \cup
    {Song(1, n, a, b) :
        n \in NameValues \cup {Undefined},
        a \in {Undefined} \cup {Padded(ArtistStem, k) : k \in 0..MaxArtistPad},
        b \in {Null, Str(<<>>)} \cup {Padded(AlbumStem, k) : k \in 0..MaxAlbumPad}}

\* calculateSongScore on two releases of one track: the same name and artist,
\* the albums two of: the album text followed by up to MaxLongPad characters,
\* the text in another letter case, the text with punctuation
MaxLongPad == 18
AlbumTexts ==
    {Padded(AlbumStem, k) : k \in 0..MaxLongPad} \cup
    {Str(<<"A", "b", "c", "d">>), Str(<<"a", "b", "'", "c", "d">>)}
ReleasePairs ==
    {<<Song(1, n, a, b1), Song(2, n, a, b2)>> :
        n \in {Str(<<"A", "b">>), Null},
        a \in {Str(ArtistStem), Undefined},
        b1 \in AlbumTexts, b2 \in AlbumTexts}

\* getConfidenceLevel: every integer from -MaxScoreInput to MaxScoreInput
MaxScoreInput == 130
ScoreInputs == (0 - MaxScoreInput)..MaxScoreInput

\* findBestMatch: search results are two catalogue entries (ids) of each of four
\* tracks, in any order and number up to MaxCandidates
MaxCandidates == 3
IdValues == {1, 2}
TrackFields ==
    {<<Str(<<"A", "b">>), Str(ArtistStem), Str(AlbumStem)>>,
     <<Str(<<"a", "'", "b">>), Undefined, Str(AlbumStem)>>,
     <<Str(<<"A", "b">>), Padded(ArtistStem, 5), Padded(AlbumStem, 10)>>,
     <<Str(<<"a", "_", "b">>), Str(ArtistStem), Null>>}
SearchResults == {Song(id, f[1], f[2], f[3]) : id \in IdValues, f \in TrackFields}
MatchOriginals ==
    {Song(0, Str(<<"A", "b">>), Str(ArtistStem), Str(AlbumStem)),
     Song(0, Str(<<"a", "b">>), Undefined, Str(AlbumStem))}

RECURSIVE SeqsUpTo(_, _)
SeqsUpTo(S, n) ==
    IF n = 0 THEN {<<>>}
    ELSE LET shorter == SeqsUpTo(S, n - 1)
         IN shorter \cup {Append(q, x) : q \in {t \in shorter : Len(t) = n - 1}, x \in S}

CandidateArrays == {NullArray} \cup {Array(q) : q \in SeqsUpTo(SearchResults, MaxCandidates)}

\* convertMusicLink: the track looked up, and search results that are catalogue
\* entries of it whose album is the original's followed by up to MaxEditionPad
\* characters, in any order and number up to MaxSearchResults
MaxEditionPad == 3
MaxSearchResults == 2
LookedUpSongs ==
    {Track(0, "spotify", Str(<<"A", "b">>), Str(ArtistStem), Padded(AlbumStem, 1)),
     Track(0, "spotify", Str(<<"A", "b">>), Str(ArtistStem), Str(<<"A", "b", "c", "d", "d">>))}
EditionResults ==
    {Track(id, "apple_music", Str(<<"A", "b">>), Str(ArtistStem), Padded(AlbumStem, 1 + k)) :
        id \in IdValues, k \in 0..MaxEditionPad}
SearchResultArrays == {Array(q) : q \in SeqsUpTo(EditionResults, MaxSearchResults)}

\* findBestMatch on records of both catalogues: two entries with the original's
\* fields, one in another letter case, one further off, one without album, in any
\* order and number up to MaxListed
MaxListed == 3
CatalogueOriginals ==
    {Track(0, "spotify", Str(<<"A", "b">>), Str(ArtistStem), Str(AlbumStem)),
     Track(0, "spotify", Str(<<"A", "b">>), Str(ArtistStem), Null)}
CatalogueResults ==
    {Track(1, "apple_music", Str(<<"A", "b">>), Str(ArtistStem), Str(AlbumStem)),
     Track(2, "spotify", Str(<<"A", "b">>), Str(ArtistStem), Str(AlbumStem)),
     Track(3, "apple_music", Str(<<"A", "B">>), Str(ArtistStem), Str(AlbumStem)),
     Track(4, "apple_music", Str(<<"A", "b">>), Padded(ArtistStem, 5), Padded(AlbumStem, 10)),
     Track(5, "apple_music", Str(<<"A", "b">>), Str(ArtistStem), Null)}
CatalogueArrays == {NullArray} \cup {Array(q) : q \in SeqsUpTo(CatalogueResults, MaxListed)}

\* SMBot: the chats (a private chat, a group), the list persisted before the start,
\* the updates: at most MaxUpdates of them over the run
MaxUpdates == 2
ChatIds == {1, 0 - 2}
SetupRows == {NoRow, Row(JSONStringify(<<1>>)), Row(JSONStringify(<<0 - 2, 1>>))}
Payloads == {BotPassword, "guess", ""}
Texts ==
    {NoText,
     Text(<<Word("hello")>>),
     Text(<<Link("music.apple.com", "album", "123"), Word("hello"),
            Link("open.spotify.com", "track", "4iV5"),
            Link("music.apple.com", "album", "123")>>)}

\* URLs: https://<host>/[<storefront>/]<kind>/[<slug>/]<id>, the id up to MaxIdDigits
\* digits, letters and digits, digits with a track parameter, or nothing
MaxIdDigits == 3
Scheme == << <<"https", ":">>, <<>> >>
OpenSpotifyHost == <<"open", ".">> \o SpotifyHost
SpotifyId == <<"4", "iV", "5">>
SpotifyUrl(kind, id) == Scheme \o <<OpenSpotifyHost, <<kind>>, id>>
AppleMusicUrl(kind, slug, id) == Scheme \o <<AppleMusicHost, <<"us">>, <<kind>>, slug, id>>
DigitRuns == {SubSeq(<<"1", "2", "3", "4", "5", "6", "7", "8", "9">>, 1, k) : k \in 1..MaxIdDigits}
IdSegments ==
    DigitRuns \cup {<<>>, SpotifyId, SpotifyId \o <<"?", "si", "=", "7">>}
        \cup {d \o <<"?", "i", "=">> \o e : d \in DigitRuns, e \in {<<>>, <<"7", "8">>}}
Urls ==
    {Scheme \o <<host>> \o storefront \o << <<kind>> >> \o slug \o <<id>> :
        host \in {OpenSpotifyHost, SpotifyHost, AppleMusicHost, <<"example", ".", "com">>},
        storefront \in {<<>>, << <<"us">> >>},
        kind \in {"track", "album", "song", "playlist"},
        slug \in {<<>>, << <<"test", "-", "album">> >>},
        id \in IdSegments}

\* convertMusicLink: the links of both platforms and kinds, a playlist, another
\* site; up to MaxCalls calls one after the other
MaxCalls == 2
LinkUrls ==
    {SpotifyUrl("track", SpotifyId),
     SpotifyUrl("album", SpotifyId),
     SpotifyUrl("playlist", SpotifyId),
     AppleMusicUrl("song", <<"test", "-", "song">>, <<"1", "2">>),
     AppleMusicUrl("album", <<"test", "-", "album">>, <<"1", "2">>),
     AppleMusicUrl("album", <<"test", "-", "album">>, <<"1", "2", "?", "i", "=", "7", "8">>),
     Scheme \o << <<"example", ".", "com">>, <<"track">>, SpotifyId >>}

\* Date.now() at the first call, counted from an instant before it; the time a
\* request takes; the time between two calls: a millisecond, or the life of a token
StartTimes == {1999}
RequestTimes == {1}
Delays == {1, (3600 - 60) * 1000}

\* response.data.expires_in of the Spotify token
ExpiresIn == {3600, 30}

\* the answers of the catalogues: the track of the id or nothing; for a search up
\* to MaxFound of: another edition of the track, another track
MaxFound == 2
CatalogueItem == Song(1, Str(<<"A", "b">>), Str(ArtistStem), Str(AlbumStem))
FoundItems ==
    {Song(2, Str(<<"A", "b">>), Str(ArtistStem), Padded(AlbumStem, 3)),
     Song(3, Str(<<"x", "y">>), Str(<<"x", "y">>), Str(AlbumStem))}
LookupResponses == {Response(TRUE, <<CatalogueItem>>), Response(TRUE, <<>>), Response(FALSE, <<>>)}
SearchResponses ==
    {Response(TRUE, q) : q \in SeqsUpTo(FoundItems, MaxFound)} \cup {Response(FALSE, <<>>)}

(***************************************************************************)
(* Initial states: the arguments of one call                               *)
(***************************************************************************)
NormIdle == str = Undefined /\ normalized = <<>>
ScoreIdle == candidateSong = NullSong /\ score = 0
MatchIdle ==
    /\ candidates = NullArray
    /\ idx = 0
    /\ bestMatch = NullMatch
    /\ bestScore = 0
    /\ scored = <<>>
    /\ result = NullMatch
LabelIdle == confidence = <<>>
ConvIdle == conversionResult = [t |-> "null"]
LinkIdle ==
    /\ url = <<>>
    /\ linkInfo = NoLinkInfo
    /\ method = NoMethod
    /\ requests = <<>>
    /\ tokens = NoTokens
    /\ now = 0
    /\ calls = 0
    /\ albumId = Null
BotIdle ==
    /\ chats = <<>>
    /\ setupRow = NoRow
    /\ handlers = <<>>
    /\ replies = <<>>
    /\ conversions = <<>>

InitNormalize ==
    /\ pc = "normalize"
    /\ str \in RawValues
    /\ normalized = <<>>
    /\ originalSong = NullSong
    /\ ScoreIdle
    /\ MatchIdle
    /\ LabelIdle
    /\ ConvIdle
    /\ BotIdle
    /\ LinkIdle

InitScore ==
    /\ pc = "calculateSongScore"
    /\ originalSong \in OriginalSongs
    /\ candidateSong \in CandidateSongs
    /\ score = 0
    /\ NormIdle
    /\ MatchIdle
    /\ LabelIdle
    /\ ConvIdle
    /\ BotIdle
    /\ LinkIdle

InitReleases ==
    /\ pc = "calculateSongScore"
    /\ \E pair \in ReleasePairs :
        /\ originalSong = pair[1]
        /\ candidateSong = pair[2]
    /\ score = 0
    /\ NormIdle
    /\ MatchIdle
    /\ LabelIdle
    /\ ConvIdle
    /\ BotIdle
    /\ LinkIdle

InitConfidence ==
    /\ pc = "getConfidenceLevel"
    /\ score \in ScoreInputs
    /\ originalSong = NullSong
    /\ candidateSong = NullSong
    /\ confidence = <<>>
    /\ NormIdle
    /\ MatchIdle
    /\ ConvIdle
    /\ BotIdle
    /\ LinkIdle

InitConvert ==
    /\ pc = "convertToOppositePlatform"
    /\ originalSong \in LookedUpSongs
    /\ candidates \in SearchResultArrays
    /\ idx = 0
    /\ bestMatch = NullMatch
    /\ bestScore = 0
    /\ scored = <<>>
    /\ result = NullMatch
    /\ url = SpotifyUrl("track", SpotifyId)
    /\ linkInfo = detectMusicLink(url)
    /\ method = Method(targetService(linkInfo.platform), "searchTracks")
    /\ requests = <<>>
    /\ tokens = NoTokens
    /\ now = 0
    /\ calls = 1
    /\ albumId = Null
    /\ NormIdle
    /\ ScoreIdle
    /\ LabelIdle
    /\ ConvIdle
    /\ BotIdle

InitCatalogue ==
    /\ pc = "findBestMatch"
    /\ originalSong \in CatalogueOriginals
    /\ candidates \in CatalogueArrays
    /\ idx = 0
    /\ bestMatch = NullMatch
    /\ bestScore = 0
    /\ scored = <<>>
    /\ result = NullMatch
    /\ NormIdle
    /\ ScoreIdle
    /\ LabelIdle
    /\ ConvIdle
    /\ BotIdle
    /\ LinkIdle

InitBot ==
    /\ pc = "loadChatIds"
    /\ chats = <<>>
    /\ setupRow \in SetupRows
    /\ handlers = <<>>
    /\ replies = <<>>
    /\ conversions = <<>>
    /\ originalSong = NullSong
    /\ NormIdle
    /\ ScoreIdle
    /\ MatchIdle
    /\ LabelIdle
    /\ ConvIdle
    /\ LinkIdle

Init ==
    /\ pc = "findBestMatch"
    /\ originalSong \in MatchOriginals
    /\ candidates \in CandidateArrays
    /\ idx = 0
    /\ bestMatch = NullMatch
    /\ bestScore = 0
    /\ scored = <<>>
    /\ result = NullMatch
    /\ NormIdle
    /\ ScoreIdle
    /\ LabelIdle
    /\ ConvIdle
    /\ BotIdle
    /\ LinkIdle

InitUrl ==
    /\ pc = "extractAlbumIdFromUrl"
    /\ url \in Urls
    /\ linkInfo = NoLinkInfo
    /\ method = NoMethod
    /\ requests = <<>>
    /\ tokens = NoTokens
    /\ now = 0
    /\ calls = 0
    /\ albumId = Null
    /\ originalSong = NullSong
    /\ NormIdle
    /\ ScoreIdle
    /\ MatchIdle
    /\ LabelIdle
    /\ ConvIdle
    /\ BotIdle

\* the ConverterService as constructed, and the first call of convertMusicLink
InitLink ==
    /\ pc = "convertMusicLink"
    /\ url \in LinkUrls
    /\ linkInfo = NoLinkInfo
    /\ method = NoMethod
    /\ requests = <<>>
    /\ tokens = NoTokens
    /\ now \in StartTimes
    /\ calls = 1
    /\ albumId = Null
    /\ originalSong = NullSong
    /\ NormIdle
    /\ ScoreIdle
    /\ MatchIdle
    /\ LabelIdle
    /\ ConvIdle
    /\ BotIdle

(***************************************************************************)
(* Actions                                                                 *)
(***************************************************************************)
\* normalize(str)
Normalize ==
    /\ pc = "normalize"
    /\ normalized' = normalize(str)
    /\ pc' = "normalized"
    /\ UNCHANGED <<str, originalSong, scoreVars, matchVars, labelVars, convVars, botVars, linkVars>>

\* calculateSongScore(originalSong, candidateSong)
CalculateSongScore ==
    /\ pc = "calculateSongScore"
    /\ score' = calculateSongScore(originalSong, candidateSong)
    /\ pc' = "scored"
    /\ UNCHANGED <<originalSong, candidateSong, normVars, matchVars, labelVars, convVars, botVars, linkVars>>

\* getConfidenceLevel(score)
GetConfidenceLevel ==
    /\ pc = "getConfidenceLevel"
    /\ confidence' = getConfidenceLevel(score)
    /\ pc' = "labelled"
    /\ UNCHANGED <<originalSong, normVars, scoreVars, matchVars, convVars, botVars, linkVars>>

\* findBestMatch, line 69: the early return
FindBestMatchNoCandidates ==
    /\ pc = "findBestMatch"
    /\ NoCandidates(candidates)
    /\ result' = NullMatch
    /\ pc' = "returned"
    /\ UNCHANGED <<originalSong, candidates, idx, bestMatch, bestScore, scored, normVars, scoreVars, labelVars, convVars, botVars, linkVars>>

\* findBestMatch, lines 71-74: the locals, and the iterator before the first candidate
FindBestMatchBegin ==
    /\ pc = "findBestMatch"
    /\ ~NoCandidates(candidates)
    /\ bestMatch' = NullMatch
    /\ bestScore' = 0
    /\ idx' = 1
    /\ pc' = "loop"
    /\ UNCHANGED <<originalSong, candidates, scored, result, normVars, scoreVars, labelVars, convVars, botVars, linkVars>>

\* findBestMatch, lines 74-80: one turn of the loop
FindBestMatchIterate ==
    /\ pc = "loop"
    /\ ~IteratorDone(idx, candidates.items)
    /\ \E candidate \in {candidates.items[idx]} :
         \E s \in {calculateSongScore(originalSong, candidate)} :
            IF IsBetter(s, bestScore)
            THEN /\ bestScore' = s
                 /\ bestMatch' = WithMatchScore(candidate, s)
                 /\ candidates' = Array(ItemsAfterSpread(candidates.items, idx, s))
            ELSE UNCHANGED <<bestScore, bestMatch, candidates>>
    /\ scored' = Append(scored, idx)
    /\ idx' = idx + 1
    /\ UNCHANGED <<pc, originalSong, result, normVars, scoreVars, labelVars, convVars, botVars, linkVars>>

\* findBestMatch, line 83: the loop is over
FindBestMatchReturn ==
    /\ pc = "loop"
    /\ IteratorDone(idx, candidates.items)
    /\ result' = Selected(bestScore, bestMatch)
    /\ pc' = "returned"
    /\ UNCHANGED <<originalSong, candidates, idx, bestMatch, bestScore, scored, normVars, scoreVars, labelVars, convVars, botVars, linkVars>>

\* convertToOppositePlatform, lines 164-167: the search found nothing
ConvertToOppositePlatformEmpty ==
    /\ pc = "convertToOppositePlatform"
    /\ Len(candidates.items) = 0
    /\ result' = NullMatch
    /\ pc' = "returned"
    /\ UNCHANGED <<originalSong, candidates, idx, bestMatch, bestScore, scored, normVars, scoreVars,
                   labelVars, convVars, botVars, linkVars>>

\* convertToOppositePlatform, line 170: findBestMatch(originalSong, searchResults)
ConvertToOppositePlatformMatch ==
    /\ pc = "convertToOppositePlatform"
    /\ Len(candidates.items) # 0
    /\ pc' = "findBestMatch"
    /\ UNCHANGED <<originalSong, normVars, scoreVars, matchVars, labelVars, convVars, botVars, linkVars>>

\* convertMusicLink, lines 108-111: no converted song
ConvertMusicLinkNoMatch ==
    /\ pc = "returned"
    /\ result = NullMatch
    /\ conversionResult' = NullConversion
    /\ pc' = "converted"
    /\ UNCHANGED <<originalSong, normVars, scoreVars, matchVars, labelVars, botVars, linkVars>>

\* convertMusicLink, lines 113-119: the result with its confidence label
ConvertMusicLinkReturn ==
    /\ pc = "returned"
    /\ result # NullMatch
    /\ conversionResult' = Conversion(originalSong, result, linkInfo.platform)
    /\ pc' = "converted"
    /\ UNCHANGED <<originalSong, normVars, scoreVars, matchVars, labelVars, botVars, linkVars>>

(***************************************************************************)
(* ConverterService and the catalogue services: actions                    *)
(***************************************************************************)
otherVars == <<normVars, scoreVars, labelVars, botVars, albumId>>

\* AppleMusicService.extractAlbumIdFromUrl(url)
ExtractAlbumIdFromUrl ==
    /\ pc = "extractAlbumIdFromUrl"
    /\ albumId' = extractAlbumIdFromUrl(url)
    /\ pc' = "extracted"
    /\ UNCHANGED <<url, linkInfo, method, requests, tokens, now, calls, originalSong,
                   normVars, scoreVars, matchVars, labelVars, convVars, botVars>>

\* convertMusicLink, lines 89-97: detectMusicLink, then null or getOriginalSong up
\* to the call of the service
DetectMusicLink ==
    /\ pc = "convertMusicLink"
    /\ \E link \in {detectMusicLink(url)} :
        /\ linkInfo' = link
        /\ IF link = NoLinkInfo
           THEN /\ conversionResult' = NullConversion
                /\ pc' = "converted"
                /\ UNCHANGED method
           ELSE /\ method' = getOriginalSong(link)
                /\ pc' = "authenticate"
                /\ UNCHANGED conversionResult
    /\ UNCHANGED <<url, requests, tokens, now, calls, originalSong, matchVars, otherVars>>

\* authenticate / generateToken: the stored token is valid, return
AuthenticateReturn ==
    /\ pc = "authenticate"
    /\ TokenValid(tokens[method.service], now)
    /\ pc' = "request"
    /\ UNCHANGED <<url, linkInfo, method, requests, tokens, now, calls, originalSong,
                   matchVars, convVars, otherVars>>

\* SpotifyService.authenticate, lines 31-39: axios.post(this.authUrl, ...)
AuthenticatePost ==
    /\ pc = "authenticate"
    /\ method.service = "spotify"
    /\ ~TokenValid(tokens[method.service], now)
    /\ requests' = Append(requests, Request("spotify", "token", NoToken))
    /\ pc' = "authenticating"
    /\ UNCHANGED <<url, linkInfo, method, tokens, now, calls, originalSong,
                   matchVars, convVars, otherVars>>

\* SpotifyService.authenticate, lines 41-47: the token is stored, or the failure
\* thrown on
AuthenticatePosted ==
    /\ pc = "authenticating"
    /\ \E d \in RequestTimes, ok \in BOOLEAN, expires_in \in ExpiresIn :
        /\ now' = now + d
        /\ requests' = Answered(requests, Response(ok, <<>>))
        /\ IF ok
           THEN /\ tokens' = [tokens EXCEPT !["spotify"] =
                                 [token |-> @.token + 1,
                                  tokenExpiry |-> spotifyTokenExpiry(now', expires_in)]]
                /\ pc' = "request"
           ELSE /\ pc' = "caught"
                /\ UNCHANGED tokens
    /\ UNCHANGED <<url, linkInfo, method, calls, originalSong, matchVars, convVars, otherVars>>

\* AppleMusicService.generateToken, lines 239-263: jwt.sign, the token stored, or
\* the failure thrown on
GenerateToken ==
    /\ pc = "authenticate"
    /\ method.service = "apple_music"
    /\ ~TokenValid(tokens[method.service], now)
    /\ \E ok \in BOOLEAN :
        /\ requests' = Answered(Append(requests, Request("apple_music", "token", NoToken)),
                                Response(ok, <<>>))
        /\ IF ok
           THEN /\ tokens' = [tokens EXCEPT !["apple_music"] =
                                 [token |-> @.token + 1,
                                  tokenExpiry |-> appleMusicTokenExpiry(now)]]
                /\ pc' = "request"
           ELSE /\ pc' = "caught"
                /\ UNCHANGED tokens
    /\ UNCHANGED <<url, linkInfo, method, now, calls, originalSong, matchVars, convVars, otherVars>>

\* getTrackById / getAlbumById / searchTracks: axios.get with the token stored
SendRequest ==
    /\ pc = "request"
    /\ requests' = Append(requests,
                          Request(method.service, method.name, tokens[method.service].token))
    /\ pc' = "response"
    /\ UNCHANGED <<url, linkInfo, method, tokens, now, calls, originalSong,
                   matchVars, convVars, otherVars>>

\* getTrackById / getAlbumById has returned; convertMusicLink, lines 98-104
GetByIdAnswered ==
    /\ pc = "response"
    /\ method.name # "searchTracks"
    /\ \E d \in RequestTimes, response \in LookupResponses :
        /\ (response.ok /\ response.items = <<>>) => method.service = "apple_music"
        /\ now' = now + d
        /\ requests' = Answered(requests, response)
        /\ \E song \in {getById(method.service, response)} :
            /\ originalSong' = song
            /\ IF OriginalMissing(song)
               THEN /\ conversionResult' = NullConversion
                    /\ pc' = "converted"
                    /\ UNCHANGED method
               ELSE /\ method' = Method(targetService(linkInfo.platform), "searchTracks")
                    /\ pc' = "authenticate"
                    /\ UNCHANGED conversionResult
    /\ UNCHANGED <<url, linkInfo, tokens, calls, matchVars, otherVars>>

\* searchTracks has returned; convertToOppositePlatform, line 163
SearchTracksAnswered ==
    /\ pc = "response"
    /\ method.name = "searchTracks"
    /\ \E d \in RequestTimes, response \in SearchResponses :
        /\ now' = now + d
        /\ requests' = Answered(requests, response)
        /\ candidates' = Array(searchTracks(method.service, response))
    /\ pc' = "convertToOppositePlatform"
    /\ UNCHANGED <<url, linkInfo, method, tokens, calls, originalSong, idx, bestMatch,
                   bestScore, scored, result, convVars, otherVars>>

\* convertMusicLink, lines 120-123: catch (error)
ConvertMusicLinkCaught ==
    /\ pc = "caught"
    /\ conversionResult' = NullConversion
    /\ pc' = "converted"
    /\ UNCHANGED <<url, linkInfo, method, requests, tokens, now, calls, originalSong,
                   matchVars, otherVars>>

\* the next call of convertMusicLink on the same ConverterService
NextCall ==
    /\ pc = "converted"
    /\ calls < MaxCalls
    /\ \E u \in LinkUrls, d \in Delays :
        /\ url' = u
        /\ now' = now + d
    /\ calls' = calls + 1
    /\ linkInfo' = NoLinkInfo
    /\ method' = NoMethod
    /\ requests' = <<>>
    /\ originalSong' = NullSong
    /\ candidates' = NullArray
    /\ idx' = 0
    /\ bestMatch' = NullMatch
    /\ bestScore' = 0
    /\ scored' = <<>>
    /\ result' = NullMatch
    /\ conversionResult' = NullConversion
    /\ pc' = "convertMusicLink"
    /\ UNCHANGED <<tokens, otherVars>>

(***************************************************************************)
(* SMBot actions                                                           *)
(***************************************************************************)
scoringVars == <<str, normalized, originalSong, candidateSong, score, candidates, idx,
                 bestMatch, bestScore, scored, result, confidence, conversionResult>>

\* start(): loadChatIds, then the handlers are registered and the bot launched
LoadChatIds ==
    /\ pc = "loadChatIds"
    /\ chats' = SetOf(getSetupValue(setupRow))
    /\ pc' = "launched"
    /\ UNCHANGED <<setupRow, handlers, replies, conversions, scoringVars, linkVars>>

\* a handler is started for the next update
Started == pc = "launched" /\ Len(handlers) < MaxUpdates

\* handleStartCommand, up to its first await
HandleStartCommand ==
    /\ Started
    /\ \E chatId \in ChatIds \cup {NoChat}, password \in Payloads :
        LET u == Len(handlers) + 1
            h(at, value, then) == Handler("start", chatId, password, NoText, at, value, then)
        IN IF chatId = NoChat
           THEN /\ replies' = Append(replies, Reply(u, chatId, ReplyNoChat))
                /\ handlers' = Append(handlers, h("reply", <<>>, ""))
                /\ UNCHANGED chats
           ELSE IF PasswordRejected(password)
           THEN /\ replies' = Append(replies, Reply(u, chatId, ReplyIncorrectPassword))
                /\ handlers' = Append(handlers, h("reply", <<>>, ""))
                /\ UNCHANGED chats
           ELSE IF AlreadyAdded(chats, chatId)
           THEN /\ handlers' = Append(handlers, h("addChatId", <<>>, ReplyWelcome))
                /\ UNCHANGED <<chats, replies>>
           ELSE /\ chats' = Add(chats, chatId)
                /\ handlers' = Append(handlers, h("findByPk", Add(chats, chatId), ReplyWelcome))
                /\ UNCHANGED replies
    /\ UNCHANGED <<pc, setupRow, conversions, scoringVars, linkVars>>

\* handleStopCommand, up to its first await
HandleStopCommand ==
    /\ Started
    /\ \E chatId \in ChatIds \cup {NoChat} :
        LET u == Len(handlers) + 1
            h(at, value, then) == Handler("stop", chatId, "", NoText, at, value, then)
        IN IF chatId = NoChat
           THEN /\ replies' = Append(replies, Reply(u, chatId, ReplyNoChat))
                /\ handlers' = Append(handlers, h("reply", <<>>, ""))
                /\ UNCHANGED chats
           ELSE IF NotFound(chats, chatId)
           THEN /\ handlers' = Append(handlers, h("removeChatId", <<>>, ReplyStopped))
                /\ UNCHANGED <<chats, replies>>
           ELSE /\ chats' = Delete(chats, chatId)
                /\ handlers' = Append(handlers, h("findByPk", Delete(chats, chatId), ReplyStopped))
                /\ UNCHANGED replies
    /\ UNCHANGED <<pc, setupRow, conversions, scoringVars, linkVars>>

\* handleTextMessage, up to the await in processAndReplyWithConversion
HandleTextMessage ==
    /\ Started
    /\ \E chatId \in ChatIds \cup {NoChat}, text \in Texts :
        LET h(at) == Handler("text", chatId, "", text, at, <<>>, "")
        IN IF NotSubscribed(chats, chatId) THEN handlers' = Append(handlers, h("done"))
           ELSE IF text.t # "string" THEN handlers' = Append(handlers, h("done"))
           ELSE IF Len(extractMusicLinks(text.words)) = 0
           THEN handlers' = Append(handlers, h("done"))
           ELSE handlers' = Append(handlers, h("sendChatAction"))
    /\ UNCHANGED <<pc, chats, setupRow, replies, conversions, scoringVars, linkVars>>

At(u, at) == u \in DOMAIN handlers /\ handlers[u].pc = at

Goto(u, at) == handlers' = [handlers EXCEPT ![u].pc = at]

\* addChatId has returned at once: handleStartCommand goes on to its reply
AddChatIdReturned ==
    \E u \in DOMAIN handlers :
        /\ At(u, "addChatId")
        /\ replies' = Append(replies, Reply(u, handlers[u].chatId, handlers[u].then))
        /\ Goto(u, "reply")
        /\ UNCHANGED <<pc, chats, setupRow, conversions, scoringVars, linkVars>>

\* removeChatId has returned at once: handleStopCommand goes on to its reply
RemoveChatIdReturned ==
    \E u \in DOMAIN handlers :
        /\ At(u, "removeChatId")
        /\ replies' = Append(replies, Reply(u, handlers[u].chatId, handlers[u].then))
        /\ Goto(u, "reply")
        /\ UNCHANGED <<pc, chats, setupRow, conversions, scoringVars, linkVars>>

\* setSetupValue: Setup.findByPk(name) has answered
FindByPk ==
    \E u \in DOMAIN handlers :
        /\ At(u, "findByPk")
        /\ Goto(u, IF setupRow.exists THEN "save" ELSE "create")
        /\ UNCHANGED <<pc, chats, setupRow, replies, conversions, scoringVars, linkVars>>

\* setSetupValue: setup.save() is done; addChatId / removeChatId and the command
\* handler go on to the reply
Save ==
    \E u \in DOMAIN handlers :
        /\ At(u, "save")
        /\ setupRow' = Row(JSONStringify(handlers[u].value))
        /\ replies' = Append(replies, Reply(u, handlers[u].chatId, handlers[u].then))
        /\ Goto(u, "reply")
        /\ UNCHANGED <<pc, chats, conversions, scoringVars, linkVars>>

\* setSetupValue: Setup.create({ name, value }) is done, or has failed on the
\* primary key when the row was created meanwhile
Create ==
    \E u \in DOMAIN handlers :
        /\ At(u, "create")
        /\ IF setupRow.exists
           THEN /\ Goto(u, "failed")
                /\ UNCHANGED <<setupRow, replies>>
           ELSE /\ setupRow' = Row(JSONStringify(handlers[u].value))
                /\ replies' = Append(replies, Reply(u, handlers[u].chatId, handlers[u].then))
                /\ Goto(u, "reply")
        /\ UNCHANGED <<pc, chats, conversions, scoringVars, linkVars>>

\* processAndReplyWithConversion: ctx.sendChatAction('typing') is done, or has
\* failed into the catch
SendChatAction ==
    \E u \in DOMAIN handlers, sent \in BOOLEAN :
        /\ At(u, "sendChatAction")
        /\ IF sent
           THEN /\ conversions' = Append(conversions,
                        [update |-> u, url |-> extractMusicLinks(handlers[u].text.words)[1]])
                /\ Goto(u, "convertMusicLink")
                /\ UNCHANGED replies
           ELSE /\ replies' = Append(replies, Reply(u, handlers[u].chatId, ReplyError))
                /\ Goto(u, "reply")
                /\ UNCHANGED conversions
        /\ UNCHANGED <<pc, chats, setupRow, scoringVars, linkVars>>

\* processAndReplyWithConversion: convertMusicLink has returned a result or null
ConvertMusicLink ==
    \E u \in DOMAIN handlers, conversion \in {"object", "null"} :
        /\ At(u, "convertMusicLink")
        /\ replies' = Append(replies, Reply(u, handlers[u].chatId,
                                            formatConversionMessage(conversion)))
        /\ handlers' = [handlers EXCEPT ![u].pc = "reply", ![u].value = <<conversion>>]
        /\ UNCHANGED <<pc, chats, setupRow, conversions, scoringVars, linkVars>>

\* ctx.reply is done: the handler ends
ReplySent ==
    \E u \in DOMAIN handlers :
        /\ At(u, "reply")
        /\ Goto(u, "done")
        /\ UNCHANGED <<pc, chats, setupRow, replies, conversions, scoringVars, linkVars>>

NextNormalize == Normalize

NextScore == CalculateSongScore

NextConfidence == GetConfidenceLevel

NextBot ==
    \/ LoadChatIds
    \/ HandleStartCommand
    \/ HandleStopCommand
    \/ HandleTextMessage
    \/ AddChatIdReturned
    \/ RemoveChatIdReturned
    \/ FindByPk
    \/ Save
    \/ Create
    \/ SendChatAction
    \/ ConvertMusicLink
    \/ ReplySent

\* every handler started has run to its end
NoHandlerUnderWay == \A u \in DOMAIN handlers : handlers[u].pc = "done"

\* the bot when each update arrives after the handler of the one before has ended
NextBotOneAtATime ==
    \/ LoadChatIds
    \/ NoHandlerUnderWay /\ HandleStartCommand
    \/ NoHandlerUnderWay /\ HandleStopCommand
    \/ NoHandlerUnderWay /\ HandleTextMessage
    \/ AddChatIdReturned
    \/ RemoveChatIdReturned
    \/ FindByPk
    \/ Save
    \/ Create
    \/ SendChatAction
    \/ ConvertMusicLink
    \/ ReplySent

NextUrl == ExtractAlbumIdFromUrl

NextLink ==
    \/ DetectMusicLink
    \/ AuthenticateReturn
    \/ AuthenticatePost
    \/ AuthenticatePosted
    \/ GenerateToken
    \/ SendRequest
    \/ GetByIdAnswered
    \/ SearchTracksAnswered
    \/ ConvertToOppositePlatformEmpty
    \/ ConvertToOppositePlatformMatch
    \/ FindBestMatchBegin
    \/ FindBestMatchIterate
    \/ FindBestMatchReturn
    \/ ConvertMusicLinkNoMatch
    \/ ConvertMusicLinkReturn
    \/ ConvertMusicLinkCaught
    \/ NextCall

NextConvert ==
    \/ ConvertToOppositePlatformEmpty
    \/ ConvertToOppositePlatformMatch
    \/ FindBestMatchBegin
    \/ FindBestMatchIterate
    \/ FindBestMatchReturn
    \/ ConvertMusicLinkNoMatch
    \/ ConvertMusicLinkReturn

Next ==
    \/ FindBestMatchNoCandidates
    \/ FindBestMatchBegin
    \/ FindBestMatchIterate
    \/ FindBestMatchReturn

\* one call of normalize
SpecNormalize == InitNormalize /\ [][NextNormalize]_vars

\* one call of calculateSongScore
SpecScore == InitScore /\ [][NextScore]_vars

\* one call of calculateSongScore on two releases of one track
SpecReleases == InitReleases /\ [][NextScore]_vars

\* one call of getConfidenceLevel
SpecConfidence == InitConfidence /\ [][NextConfidence]_vars

\* one call of convertMusicLink, from the search results on
SpecConvert == InitConvert /\ [][NextConvert]_vars

\* one call of findBestMatch on records of both catalogues
SpecCatalogue == InitCatalogue /\ [][Next]_vars

\* the bot from its start, handling up to MaxUpdates updates
SpecBot == InitBot /\ [][NextBot]_vars

\* the bot from its start, each update handled after the one before
SpecBotOneAtATime == InitBot /\ [][NextBotOneAtATime]_vars

\* the bot when every request settles: each await of a handler is resumed
SpecBotFair ==
    /\ InitBot
    /\ [][NextBot]_vars
    /\ WF_vars(SendChatAction)
    /\ WF_vars(ConvertMusicLink)
    /\ WF_vars(ReplySent)

\* one call of AppleMusicService.extractAlbumIdFromUrl
SpecUrl == InitUrl /\ [][NextUrl]_vars

\* a ConverterService from its construction, up to MaxCalls calls of convertMusicLink
SpecLink == InitLink /\ [][NextLink]_vars

\* one call of findBestMatch
Spec == Init /\ [][Next]_vars
(***************************************************************************)
(* Properties of normalize (SpecNormalize)                                 *)
(***************************************************************************)
IsLetter(c) == c \in LowerChars \cup UpperChars \cup NonAsciiLower \cup NonAsciiUpper
IsDigit(c) == c \in DigitChars

RECURSIVE KeepLettersDigitsSpaces(_)
KeepLettersDigitsSpaces(s) ==
    IF s = <<>> THEN <<>>
    ELSE IF IsLetter(Head(s)) \/ IsDigit(Head(s)) \/ IsSpaceChar(Head(s))
         THEN <<Head(s)>> \o KeepLettersDigitsSpaces(Tail(s))
         ELSE KeepLettersDigitsSpaces(Tail(s))

\* the normalization as stated: lower-case, keep letters, digits and whitespace, trim
StatedNormalization(s) == trim(KeepLettersDigitsSpaces(MapChars(s)))

\* C8: normalize returns the lower-cased text with every character that is not a
\* letter, a digit or whitespace removed, and no letter or digit removed, trimmed.
C8_NormalizeKeepsLettersDigitsSpaces ==
    (pc = "normalized" /\ str.t = "string") => normalized = StatedNormalization(str.s)

(***************************************************************************)
(* Properties of calculateSongScore (SpecScore)                            *)
(***************************************************************************)
FieldNames == {"name", "artist", "album"}

BothGiven == originalSong.t = "object" /\ candidateSong.t = "object"

\* the similarity compareTwoStrings returns for one field of the two songs
FieldSimilarity(f) == compareTwoStrings(normalize(originalSong[f]), normalize(candidateSong[f]))

Min2(x, y) == IF x < y THEN x ELSE y

\* round(40 t + 40 a + 20 b), a tie rounded up, in exact arithmetic on the values
\* of the doubles t, a, b
HalfUpOfWeightedSum(t, a, b) ==
    LET e == Min2(0, Min2(t.e, Min2(a.e, b.e)))
        n == BigAdd(BigAdd(BigMulSmall(BigShiftLeft(t.m, t.e - e), 40),
                           BigMulSmall(BigShiftLeft(a.m, a.e - e), 40)),
                    BigMulSmall(BigShiftLeft(b.m, b.e - e), 20))
    IN BigToInt(BigShiftRight(BigAdd(BigMulSmall(n, 2), BigShiftLeft(<<1>>, 0 - e)),
                              1 - e).q)

\* C4: the score of two given songs is 100 * (0.4 sim(name) + 0.4 sim(artist) +
\* 0.2 sim(album)) rounded to the nearest integer, a tie rounded up.
C4_ScoreIsHalfUpOfWeightedSum ==
    (pc = "scored" /\ BothGiven) =>
        \A t \in {FieldSimilarity("name")} :
            \A a \in {FieldSimilarity("artist")} :
                \A b \in {FieldSimilarity("album")} :
                    score = HalfUpOfWeightedSum(t, a, b)

\* C5: the score is 0 whenever the original or the candidate is null.
C5_NullScoresZero ==
    (pc = "scored" /\ ~BothGiven) => score = 0

C5_Witness ==
    /\ pc = "scored"
    /\ originalSong.t = "null"
    /\ candidateSong.t = "object"
    /\ \A f \in FieldNames : candidateSong[f].t # "string"

\* C6: the score is an integer from 0 to 100.
C6_ScoreInRange == pc = "scored" => score \in 0..100

C6_Witness == pc = "scored" /\ BothGiven /\ score > 60 /\ score < 100

Populated(song) ==
    song.t = "object" /\ \A f \in FieldNames : song[f].t = "string" /\ song[f].s # <<>>

\* C7: a song with name, artist and album all populated scores 100 against itself.
C7_IdenticalSongScores100 ==
    (pc = "scored" /\ Populated(originalSong) /\ candidateSong = originalSong) =>
        score = 100

C7_Witness ==
    /\ pc = "scored"
    /\ Populated(originalSong)
    /\ candidateSong = originalSong
    /\ Len(originalSong.album.s) > Len(AlbumStem)

\* letter case folded and punctuation (symbols and the underscore) removed
RECURSIVE FoldCaseAndPunctuation(_)
FoldCaseAndPunctuation(s) ==
    IF s = <<>> THEN <<>>
    ELSE IF Head(s) \in SymbolChars \cup {Underscore}
         THEN FoldCaseAndPunctuation(Tail(s))
         ELSE <<toLowerCase(Head(s))>> \o FoldCaseAndPunctuation(Tail(s))

DifferOnlyInCaseOrPunctuation ==
    /\ BothGiven
    /\ \A f \in FieldNames :
        /\ originalSong[f].t = "string"
        /\ candidateSong[f].t = "string"
        /\ FoldCaseAndPunctuation(originalSong[f].s) = FoldCaseAndPunctuation(candidateSong[f].s)

\* C9: two songs whose name, artist and album differ only in letter case or in
\* punctuation characters score 100.
C9_CaseAndPunctuationIgnored ==
    (pc = "scored" /\ DifferOnlyInCaseOrPunctuation) => score = 100

Missing(v) == v.t # "string"

\* the song with every missing field replaced by the empty string
WithEmptyForMissing(song) ==
    [song EXCEPT !.name = IF Missing(@) THEN Str(<<>>) ELSE @,
                 !.artist = IF Missing(@) THEN Str(<<>>) ELSE @,
                 !.album = IF Missing(@) THEN Str(<<>>) ELSE @]

\* C10: a missing or null field is scored as the empty string; two given songs
\* that both lack name, artist and album score 100; two songs that both lack the
\* album score what they score with identical albums.
C10_MissingFieldIsEmptyString ==
    (pc = "scored" /\ BothGiven) =>
        /\ score = calculateSongScore(WithEmptyForMissing(originalSong),
                                      WithEmptyForMissing(candidateSong))
        /\ (\A f \in FieldNames : Missing(originalSong[f]) /\ Missing(candidateSong[f]))
              => score = 100
        /\ (Missing(originalSong.album) /\ Missing(candidateSong.album))
              => score = calculateSongScore([originalSong EXCEPT !.album = Str(AlbumStem)],
                                            [candidateSong EXCEPT !.album = Str(AlbumStem)])

C10_Witness ==
    /\ pc = "scored"
    /\ BothGiven
    /\ \A f \in FieldNames : Missing(originalSong[f]) /\ Missing(candidateSong[f])
    /\ originalSong.name # candidateSong.name
    /\ score = 100

(***************************************************************************)
(* Properties of calculateSongScore on two releases (SpecReleases)         *)
(***************************************************************************)
SameNameAndArtist ==
    /\ BothGiven
    /\ originalSong.name = candidateSong.name
    /\ originalSong.artist = candidateSong.artist

AlbumStringsDiffer ==
    /\ originalSong.album.t = "string"
    /\ candidateSong.album.t = "string"
    /\ originalSong.album.s # candidateSong.album.s

One == DoubleFromInt(1)

DigitValue(c) == (CHOOSE i \in 1..10 : DecimalDigits[i] = c) - 1

IsDecimalDigit(c) == \E i \in 1..10 : DecimalDigits[i] = c

\* the natural number a sequence of decimal digits reads as
RECURSIVE ParseDigits(_)
ParseDigits(ds) ==
    IF ds = <<>> THEN 0
    ELSE 10 * ParseDigits(SubSeq(ds, 1, Len(ds) - 1)) + DigitValue(ds[Len(ds)])

\* text reads as the integer n: an optional minus sign, then digits
ReadsAs(text, n) ==
    LET ds == IF text # <<>> /\ Head(text) = "-" THEN Tail(text) ELSE text
    IN /\ ds # <<>>
       /\ \A i \in DOMAIN ds : IsDecimalDigit(ds[i])
       /\ (ds[1] = "0" => Len(ds) = 1)
       /\ n = (IF ds = text THEN ParseDigits(ds) ELSE 0 - ParseDigits(ds))

\* label is the score as a decimal number followed by suffix
IsScoreThen(label, n, suffix) ==
    /\ Len(label) > Len(suffix)
    /\ SubSeq(label, Len(label) - Len(suffix) + 1, Len(label)) = suffix
    /\ ReadsAs(SubSeq(label, 1, Len(label) - Len(suffix)), n)

Converted == pc = "converted" /\ conversionResult.t = "object"

\* C13: a conversion is labelled "Exact match" only when name, artist and album
\* of the original and the converted song are equal and the score is 100; with a
\* difference in a field the label is the score as a percentage.
C13_ExactMatchOnlyForEqualFields ==
    Converted =>
        \A original \in {conversionResult.original} :
            \A converted \in {conversionResult.converted} :
                IF \A f \in FieldNames : original[f] = converted[f]
                THEN converted.matchScore = 100 /\ conversionResult.confidence = ExactMatch
                ELSE IsScoreThen(conversionResult.confidence, converted.matchScore,
                                 PercentMatch)

(***************************************************************************)
(* Properties of findBestMatch (Spec)                                      *)
(***************************************************************************)
\* the scores of the first n candidates, in order
RECURSIVE ScoresUpTo(_)
ScoresUpTo(n) ==
    IF n = 0 THEN <<>>
    ELSE Append(ScoresUpTo(n - 1), calculateSongScore(originalSong, candidates.items[n]))

CandidateScores == ScoresUpTo(Len(candidates.items))

MaxOf(scores) == CHOOSE m \in {scores[i] : i \in DOMAIN scores} :
                    \A i \in DOMAIN scores : scores[i] <= m

FirstAt(scores, m) == CHOOSE i \in DOMAIN scores :
                         scores[i] = m /\ \A j \in DOMAIN scores : scores[j] = m => i <= j

\* C1: findBestMatch returns null exactly when candidates is null, is empty, or
\* no candidate scores 60 or more.
C1_NullExactlyWhenNoScoreReaches60 ==
    pc = "returned" =>
        \A scores \in {CandidateScores} :
            (result = NullMatch) <=>
                \/ candidates.t = "null"
                \/ Len(candidates.items) = 0
                \/ \A i \in DOMAIN scores : scores[i] < 60

C1_Witness ==
    /\ pc = "returned"
    /\ result = NullMatch
    /\ Len(candidates.items) > 1
    /\ \E scores \in {CandidateScores} : MaxOf(scores) = 59

\* C2: a result that is not null has as matchScore the maximum of the candidates'
\* scores, which is 60 or more, and the fields of a candidate with that score.
C2_ResultHasMaximalScore ==
    (pc = "returned" /\ result # NullMatch) =>
        \A scores \in {CandidateScores} :
            /\ result.matchScore = MaxOf(scores)
            /\ result.matchScore >= 60
            /\ \E i \in DOMAIN scores :
                /\ scores[i] = result.matchScore
                /\ result = WithMatchScore(candidates.items[i], scores[i])

C2_Witness ==
    /\ pc = "returned"
    /\ result # NullMatch
    /\ result.matchScore = 60
    /\ Len(candidates.items) > 1
    /\ result.id # candidates.items[Len(candidates.items)].id

\* C3: of several candidates with the maximal score, the result is the earliest
\* in the sequence.
C3_EarliestOfEqualScoresWins ==
    (pc = "returned" /\ result # NullMatch) =>
        \A scores \in {CandidateScores} :
            \A first \in {FirstAt(scores, MaxOf(scores))} :
                result = WithMatchScore(candidates.items[first], scores[first])

C3_Witness ==
    /\ pc = "returned"
    /\ result # NullMatch
    /\ \E scores \in {CandidateScores} :
        \E i, j \in DOMAIN scores :
            /\ i < j
            /\ scores[i] = MaxOf(scores)
            /\ scores[j] = MaxOf(scores)
            /\ candidates.items[i] # candidates.items[j]
            /\ result.id = candidates.items[i].id

(***************************************************************************)
(* Properties of findBestMatch on catalogue records (SpecCatalogue)        *)
(***************************************************************************)
Returned == pc = "returned" /\ candidates.t = "array"

SameScoredFields(a, b) == \A f \in FieldNames : a[f] = b[f]

\* C14: with a candidate whose name, artist and album equal the original's in the
\* list, the result has matchScore 100 and is the earliest candidate scoring 100.
C14_EqualCandidateGivesEarliest100 ==
    (Returned /\ \E i \in DOMAIN candidates.items :
                    SameScoredFields(candidates.items[i], originalSong)) =>
        /\ result # NullMatch
        /\ result.matchScore = 100
        /\ \A scores \in {CandidateScores} :
              \A first \in {FirstAt(scores, 100)} :
                 \A f \in DOMAIN candidates.items[first] :
                    result[f] = candidates.items[first][f]

C14_Witness ==
    /\ Returned
    /\ Len(candidates.items) = 3
    /\ ~SameScoredFields(candidates.items[2], originalSong)
    /\ SameScoredFields(candidates.items[3], originalSong)
    /\ result # NullMatch
    /\ result.id = candidates.items[2].id
    /\ result.id # candidates.items[1].id

\* the positions 1..n in order
RECURSIVE Positions(_)
Positions(n) == IF n = 0 THEN <<>> ELSE Append(Positions(n - 1), n)

\* C15: findBestMatch calls calculateSongScore once for every candidate, in order,
\* before it returns; a candidate scoring 100 does not end the loop.
C15_EveryCandidateScoredOnce ==
    Returned => scored = Positions(Len(candidates.items))

C15_Witness ==
    /\ Returned
    /\ Len(candidates.items) = 3
    /\ scored = <<1, 2, 3>>
    /\ calculateSongScore(originalSong, candidates.items[1]) = 100
    /\ result # NullMatch
    /\ result.id = candidates.items[1].id

\* C16: findBestMatch, and the calls of calculateSongScore in it, leave the
\* original, the candidate sequence and every candidate as they were; the result
\* carries matchScore and no candidate does.
C16_InputsUnchanged ==
    [][/\ originalSong' = originalSong
       /\ candidates' = candidates
       /\ \A i \in DOMAIN candidates'.items : "matchScore" \notin DOMAIN candidates'.items[i]
       /\ (pc' = "returned" /\ result' # NullMatch) => "matchScore" \in DOMAIN result']_vars

C16_Witness ==
    /\ Returned
    /\ result # NullMatch
    /\ result.matchScore < 100
    /\ Len(candidates.items) > 1

\* C17: candidates that agree on name, artist and album get the same score
\* against the original whatever their id and platform are, and the result carries
\* every field of the candidate it was made from with the candidate's value.
C17_OnlyScoredFieldsCount ==
    Returned =>
        \A scores \in {CandidateScores} :
            /\ \A i, j \in DOMAIN scores :
                  SameScoredFields(candidates.items[i], candidates.items[j])
                      => scores[i] = scores[j]
            /\ result # NullMatch =>
                  \E i \in DOMAIN scores :
                      /\ scores[i] = result.matchScore
                      /\ DOMAIN result = DOMAIN candidates.items[i] \cup {"matchScore"}
                      /\ \A f \in DOMAIN candidates.items[i] :
                            result[f] = candidates.items[i][f]

C17_Witness ==
    /\ Returned
    /\ result # NullMatch
    /\ result.platform = "spotify"
    /\ \E i, j \in DOMAIN candidates.items :
        /\ i < j
        /\ SameScoredFields(candidates.items[i], candidates.items[j])
        /\ candidates.items[i].id # candidates.items[j].id
        /\ candidates.items[i].platform # candidates.items[j].platform
        /\ result.id = candidates.items[i].id

(***************************************************************************)
(* Properties of the bot (SpecBot)                                         *)
(***************************************************************************)
\* this step starts the handler of a new update
Handled == Len(handlers') = Len(handlers) + 1

\* the handler this step starts
NewHandler == handlers'[Len(handlers')]

IsSubscribed(chatId) == \E i \in DOMAIN chats : chats[i] = chatId

IsSubscribedNext(chatId) == \E i \in DOMAIN chats' : chats'[i] = chatId

\* C18: a chat id enters the subscribed set only by a /start from that chat whose
\* payload is the bot password, or by being loaded from the persisted list at the
\* start; a /start with a wrong or missing password or without chat id leaves the
\* set as it is.
C18_SubscribedOnlyByPassword ==
    [][/\ \A c \in ChatIds \cup {NoChat} :
            (~IsSubscribed(c) /\ IsSubscribedNext(c)) =>
                \/ /\ pc = "loadChatIds"
                   /\ setupRow.exists
                   /\ \E i \in DOMAIN JSONParse(setupRow.value) : JSONParse(setupRow.value)[i] = c
                \/ /\ Handled
                   /\ NewHandler.kind = "start"
                   /\ NewHandler.chatId = c
                   /\ NewHandler.payload = BotPassword
       /\ (/\ Handled
           /\ NewHandler.kind = "start"
           /\ (NewHandler.payload # BotPassword \/ NewHandler.chatId = NoChat))
              => chats' = chats]_vars

C18_Witness ==
    /\ Len(handlers) = 2
    /\ handlers[1].kind = "start"
    /\ handlers[1].payload = ""
    /\ handlers[2].kind = "start"
    /\ handlers[2].payload = BotPassword
    /\ handlers[2].chatId = handlers[1].chatId
    /\ handlers[2].pc = "findByPk"
    /\ IsSubscribed(handlers[2].chatId)

HasMusicLink(text) == text.t = "string" /\ \E i \in DOMAIN text.words : text.words[i].host # ""

\* C19: handleTextMessage goes on to a conversion only for a message with text and
\* a music link from a chat subscribed when the message is handled; for any other
\* message the handler ends with no conversion and no reply, then and later.
C19_ConversionOnlyForSubscribed ==
    [][/\ (Handled /\ NewHandler.kind = "text") =>
            IF IsSubscribed(NewHandler.chatId) /\ HasMusicLink(NewHandler.text)
            THEN NewHandler.pc = "sendChatAction"
            ELSE NewHandler.pc = "done" /\ replies' = replies /\ conversions' = conversions
       /\ conversions' # conversions =>
            \E u \in DOMAIN handlers :
                /\ handlers[u].kind = "text"
                /\ handlers[u].pc = "sendChatAction"
                /\ Len(conversions') = Len(conversions) + 1
                /\ conversions'[Len(conversions')].update = u
       /\ (replies' # replies /\ ~Handled) =>
            \A u \in {replies'[Len(replies')].update} :
                handlers[u].kind = "text" => handlers[u].pc \in {"sendChatAction", "convertMusicLink"}]_vars

C19_Witness ==
    /\ Len(handlers) = 2
    /\ handlers[1].kind = "text"
    /\ HasMusicLink(handlers[1].text)
    /\ handlers[1].pc = "done"
    /\ \A i \in DOMAIN replies : replies[i].update # 1
    /\ handlers[2].kind = "text"
    /\ handlers[2].chatId # handlers[1].chatId
    /\ Len(conversions) = 1
    /\ conversions[1].update = 2

\* C20: addChatId for a chat already subscribed and removeChatId for a chat not
\* subscribed change neither the set nor the persisted row and ask nothing of the
\* database; after addChatId the chat is subscribed, after removeChatId it is not,
\* so a second call changes nothing.
C20_AddAndRemoveAreIdempotent ==
    [][/\ (Handled /\ NewHandler.kind = "start" /\ NewHandler.chatId # NoChat
               /\ NewHandler.payload = BotPassword) =>
            /\ IsSubscribedNext(NewHandler.chatId)
            /\ IsSubscribed(NewHandler.chatId) =>
                  chats' = chats /\ setupRow' = setupRow /\ NewHandler.pc = "addChatId"
       /\ (Handled /\ NewHandler.kind = "stop" /\ NewHandler.chatId # NoChat) =>
            /\ ~IsSubscribedNext(NewHandler.chatId)
            /\ ~IsSubscribed(NewHandler.chatId) =>
                  chats' = chats /\ setupRow' = setupRow /\ NewHandler.pc = "removeChatId"
       /\ \A u \in DOMAIN handlers :
            (handlers[u].pc \in {"addChatId", "removeChatId"} /\ handlers'[u] # handlers[u]) =>
                chats' = chats /\ setupRow' = setupRow /\ handlers'[u].pc = "reply"]_vars

C20_Witness ==
    /\ Len(handlers) = 2
    /\ handlers[1].kind = "start"
    /\ handlers[1].pc = "findByPk"
    /\ handlers[2].kind = "start"
    /\ handlers[2].chatId = handlers[1].chatId
    /\ handlers[2].pc = "addChatId"
    /\ setupRow = NoRow

(***************************************************************************)
(* Properties of the bot handling one update at a time (SpecBotOneAtATime) *)
(***************************************************************************)
\* no call of setSetupValue is under way
NoWriteUnderWay ==
    \A u \in DOMAIN handlers : handlers[u].pc \notin {"findByPk", "save", "create"}

\* C21: with the commands handled one at a time and the writes succeeding, after
\* every completed addChatId / removeChatId the persisted list read back and made
\* a Set is the subscribed set in memory, element for element, as loadChatIds
\* would restore it.
C21_PersistedListIsSubscribedSet ==
    (pc = "launched" /\ NoWriteUnderWay) =>
        /\ SetOf(getSetupValue(setupRow)) = chats
        /\ \A u \in DOMAIN handlers : handlers[u].pc # "failed"

C21_Witness ==
    /\ pc = "launched"
    /\ Len(handlers) = 2
    /\ handlers[1].kind = "start"
    /\ handlers[1].then = ReplyWelcome
    /\ handlers[1].value = <<1, 0 - 2>>
    /\ handlers[2].kind = "stop"
    /\ handlers[2].chatId = 1
    /\ handlers[2].pc = "done"
    /\ chats = <<0 - 2>>
    /\ setupRow = Row(<<"[", "-", "2", "]">>)

(***************************************************************************)
(* Properties of convertMusicLink from the URL on (SpecLink)               *)
(***************************************************************************)
Lookups == {"getTrackById", "getAlbumById"}

\* findBestMatch has been called in this call of convertMusicLink
FindBestMatchCalled == pc \in {"findBestMatch", "loop"} \/ scored # <<>>

\* C22: convertMusicLink goes lookup, search, selection: no request for a URL that
\* detectMusicLink does not recognize; a search only after a lookup that returned
\* a record; findBestMatch only after a search that returned a non-empty list; null
\* whenever a step yields nothing.
C22_LookupThenSearchThenSelection ==
    /\ (pc # "convertMusicLink" /\ linkInfo.t = "null") =>
            requests = <<>> /\ pc = "converted" /\ ~FindBestMatchCalled
    /\ \A k \in DOMAIN requests :
            requests[k].name = "searchTracks" =>
                /\ originalSong.t = "object"
                /\ \E j \in 1..(k - 1) :
                        requests[j].name \in Lookups /\ requests[j].answer = "ok"
    /\ FindBestMatchCalled =>
            /\ Len(candidates.items) > 0
            /\ \E k \in DOMAIN requests :
                    requests[k].name = "searchTracks" /\ requests[k].answer = "ok"
    /\ (/\ pc = "converted"
        /\ \/ linkInfo.t = "null"
           \/ originalSong.t = "null"
           \/ Len(candidates.items) = 0
           \/ result = NullMatch)
            => conversionResult = NullConversion

C22_Witness ==
    /\ pc = "converted"
    /\ originalSong.t = "object"
    /\ requests # <<>>
    /\ requests[Len(requests)].name = "searchTracks"
    /\ requests[Len(requests)].answer = "ok"
    /\ Len(candidates.items) = 0
    /\ conversionResult = NullConversion

\* the platform of the link's host
HostPlatform(u) == IF u[3] = AppleMusicHost THEN "apple_music" ELSE "spotify"

\* C23: a conversion crosses platforms: the search goes to the catalogue other
\* than the link's, and in the result targetPlatform is the other platform than
\* sourcePlatform, spotify to apple_music and apple_music to spotify.
C23_ConversionCrossesPlatforms ==
    /\ \A k \in DOMAIN requests :
            requests[k].name = "searchTracks" =>
                /\ requests[k].service \in Platforms
                /\ requests[k].service # HostPlatform(url)
    /\ Converted =>
            /\ conversionResult.sourcePlatform = HostPlatform(url)
            /\ conversionResult.targetPlatform \in Platforms
            /\ conversionResult.targetPlatform # conversionResult.sourcePlatform
            /\ conversionResult.converted.platform = conversionResult.targetPlatform

C23_Witness ==
    /\ Converted
    /\ conversionResult.sourcePlatform = "apple_music"
    /\ conversionResult.targetPlatform = "spotify"
    /\ linkInfo.type = "album"

\* C24: no failure of the transport leaves convertMusicLink: a failed track or
\* album request gives a null record, a failed search an empty list, a failed
\* authentication an exception caught in convertMusicLink; in each case findBestMatch
\* is not called and the call returns null.
C24_FailuresEndInNull ==
    \A k \in DOMAIN requests :
        requests[k].answer = "failed" =>
            /\ requests[k].name \in Lookups => originalSong = NullSong
            /\ requests[k].name = "searchTracks" => candidates = Array(<<>>)
            /\ requests[k].name = "token" => pc \in {"caught", "converted"}
            /\ ~FindBestMatchCalled
            /\ pc \in {"caught", "convertToOppositePlatform", "returned", "converted"}
            /\ pc = "converted" => conversionResult = NullConversion

C24_Witness ==
    /\ pc = "converted"
    /\ conversionResult = NullConversion
    /\ Len(requests) = 3
    /\ requests[2].name = "getTrackById"
    /\ requests[2].answer = "ok"
    /\ requests[3].service = "spotify"
    /\ requests[3].name = "token"
    /\ requests[3].answer = "failed"

(***************************************************************************)
(* Properties of the bot when every request settles (SpecBotFair)          *)
(***************************************************************************)
RepliesTo(u) == {i \in DOMAIN replies : replies[i].update = u}

\* the reply processAndReplyWithConversion owes to the update of a handler that
\* has ended: by what convertMusicLink returned, the error text when it was not
\* reached
ReplyOwed(h) ==
    IF h.value = <<"object">> THEN ReplyConverted
    ELSE IF h.value = <<"null">> THEN ReplyNotConverted
    ELSE ReplyError

\* update u has got one reply, to its message, of the text owed
Replied(u) ==
    /\ handlers[u].kind = "text"
    /\ Cardinality(RepliesTo(u)) = 1
    /\ \A i \in RepliesTo(u) :
        /\ replies[i].chatId = handlers[u].chatId
        /\ replies[i].text = ReplyOwed(handlers[u])

\* the handler of update u has ended, with that one reply
RepliedOnce(u) == Replied(u) /\ handlers[u].pc = "done"

\* a step of a handler that went on to processAndReplyWithConversion: on to the
\* conversion, to the reply, to its end with the one reply
StepsToOneReply(u) ==
    /\ handlers[u].pc = "sendChatAction" =>
            handlers'[u].pc \in {"sendChatAction", "convertMusicLink", "reply"}
    /\ handlers[u].pc = "convertMusicLink" =>
            handlers'[u].pc \in {"convertMusicLink", "reply"}
    /\ handlers[u].pc = "reply" => handlers'[u].pc \in {"reply", "done"}
    /\ (handlers[u].pc # "done" /\ handlers'[u].pc = "done") => RepliedOnce(u)'

StoredAndUnexpired(s) == tokens[s].token # NoToken /\ now < tokens[s].tokenExpiry

\* this step sends a request; the request it sends
Sent == Len(requests') = Len(requests) + 1
LastSent == requests'[Len(requests')]

\* this step stores a new token for service s
NewTokenStored(s) == tokens'[s].token \notin {NoToken, tokens[s].token}

\* C26: authenticate() / generateToken() with a token stored and the time before
\* its expiry asks for no token, signs none and leaves the stored one; with no token
\* stored or the expiry reached a token is asked for or signed, and the catalogue
\* request is sent only once a new token is stored; every catalogue request carries
\* the stored token, which is unexpired or was obtained just before.
C26_TokenReusedUntilExpiry ==
    [][/\ (pc = "authenticate" /\ StoredAndUnexpired(method.service)) =>
            tokens' = tokens /\ requests' = requests /\ pc' = "request"
       /\ (pc = "authenticate" /\ ~StoredAndUnexpired(method.service)) =>
            /\ Sent
            /\ LastSent.service = method.service
            /\ LastSent.name = "token"
            /\ pc' \in {"authenticating", "request", "caught"}
            /\ pc' = "request" => NewTokenStored(method.service)
       /\ pc = "authenticating" =>
            /\ ~Sent
            /\ pc' \in {"request", "caught"}
            /\ pc' = "request" => NewTokenStored(method.service)
       /\ (Sent /\ LastSent.name # "token") =>
            /\ pc = "request"
            /\ tokens' = tokens
            /\ LastSent.service = method.service
            /\ LastSent.token = tokens[method.service].token
            /\ LastSent.token # NoToken
            /\ \/ StoredAndUnexpired(method.service)
               \/ /\ requests # <<>>
                  /\ requests[Len(requests)].service = method.service
                  /\ requests[Len(requests)].name = "token"
                  /\ requests[Len(requests)].answer = "ok"]_vars

C26_Witness ==
    /\ calls = 2
    /\ pc = "response"
    /\ Len(requests) = 3
    /\ requests[1].name = "getTrackById"
    /\ requests[1].service = "spotify"
    /\ requests[1].token = 1
    /\ requests[2].name = "token"
    /\ requests[2].service = "apple_music"
    /\ requests[3].name = "searchTracks"
    /\ requests[3].token = 1

(***************************************************************************)
(* Properties of AppleMusicService.extractAlbumIdFromUrl (SpecUrl)         *)
(***************************************************************************)
\* https://music.apple.com/<storefront>/<kind>/<slug>/<id>, the id all digits
IsAppleMusicUrlOf(u, kinds) ==
    /\ Len(u) = 7
    /\ SubSeq(u, 1, 2) = Scheme
    /\ u[3] = AppleMusicHost
    /\ u[4] # <<>>
    /\ \E kind \in kinds : u[5] = <<kind>>
    /\ u[6] # <<>>
    /\ u[7] # <<>>
    /\ \A i \in DOMAIN u[7] : IsDigitPiece(u[7][i])

\* C27: extractAlbumIdFromUrl returns the trailing numeric id for an Apple Music
\* album URL and for an Apple Music song URL.
C27_AlbumIdOfAlbumAndSongUrls ==
    (pc = "extracted" /\ IsAppleMusicUrlOf(url, {"album", "song"})) => albumId = Str(url[7])

(***************************************************************************)
(* Properties of the bot with handlers under way together (SpecBot)        *)
(***************************************************************************)
\* the confirmation of a /stop has been sent to chat c, and no /start with the
\* password has come from c since
StopConfirmed(c) ==
    \E u \in DOMAIN handlers :
        /\ handlers[u].kind = "stop"
        /\ handlers[u].chatId = c
        /\ handlers[u].then = ReplyStopped
        /\ handlers[u].pc = "done"
        /\ ~\E v \in DOMAIN handlers :
                /\ v > u
                /\ handlers[v].kind = "start"
                /\ handlers[v].chatId = c
                /\ handlers[v].payload = BotPassword

\* C28: once the confirmation of /stop has been sent to a chat, no converted link
\* is sent to that chat until a later /start with the password, however the /stop
\* handler and the text handlers awaiting a conversion interleave.
C28_NoConversionReplyAfterStop ==
    [][\A c \in ChatIds :
            (/\ StopConfirmed(c)
             /\ Len(replies') = Len(replies) + 1
             /\ replies'[Len(replies')].chatId = c)
                => replies'[Len(replies')].text # ReplyConverted]_vars

\* every /start and /stop handler has run to its end or has failed
AllCommandsOver ==
    /\ pc = "launched"
    /\ handlers # <<>>
    /\ \A u \in DOMAIN handlers :
            handlers[u].kind \in {"start", "stop"} /\ handlers[u].pc \in {"done", "failed"}

\* the handlers are of different chats
OfDifferentChats ==
    \A u, v \in DOMAIN handlers : u # v => handlers[u].chatId # handlers[v].chatId

\* C29: when /start and /stop handlers of different chats run together, then once
\* all have completed the persisted list is the subscribed set in memory, and no
\* handler has failed.
C29_ConcurrentCommandsKeepListAndSet ==
    (AllCommandsOver /\ OfDifferentChats) =>
        /\ SetOf(getSetupValue(setupRow)) = chats
        /\ \A u \in DOMAIN handlers : handlers[u].pc # "failed"

\* the words of a message that are music links, by their place in the text
LinkPlaces(words) ==
    {i \in DOMAIN words :
        \E n \in DOMAIN allPatterns :
            words[i].host = allPatterns[n].host /\ words[i].kind = allPatterns[n].kind}

\* the music link that occurs earliest in the text
EarliestLink(words) == words[Least(LinkPlaces(words))]

\* C30: of a message with several distinct music links exactly one is converted,
\* the one that occurs earliest in the text, whatever the platforms of the links;
\* extractMusicLinks returns each distinct link of the text once.
C30_EarliestLinkIsConverted ==
    /\ \A k \in DOMAIN conversions :
            LET words == handlers[conversions[k].update].text.words
                links == extractMusicLinks(words)
            IN /\ conversions[k].url = EarliestLink(words)
               /\ \A j \in DOMAIN conversions : conversions[j].update = conversions[k].update => j = k
               /\ {links[i] : i \in DOMAIN links} = {words[i] : i \in LinkPlaces(words)}
               /\ \A i, j \in DOMAIN links : links[i] = links[j] => i = j
====
